---- MODULE Spec2Model ----
(***************************************************************************)
(* csv2fhir: a model of the mapping configuration (internal/config), the   *)
(* record builder and object-graph mutator (internal/transform), the       *)
(* output writer (internal/output) and the concurrent pipeline of run()    *)
(* (main.go).                                                              *)
(*                                                                         *)
(* Go strings are modelled as sequences of one-character strings, so that  *)
(* the parsing and substitution code is modelled by what it does to the    *)
(* characters.                                                             *)
(***************************************************************************)
EXTENDS Integers, Sequences, FiniteSets, TLC

(***************************************************************************)
(* Strings                                                                 *)
(***************************************************************************)
LowerLetters == <<"a","b","c","d","e","f","g","h","i","j","k","l","m",
                  "n","o","p","q","r","s","t","u","v","w","x","y","z">>

UpperLetters == <<"A","B","C","D","E","F","G","H","I","J","K","L","M",
                  "N","O","P","Q","R","S","T","U","V","W","X","Y","Z">>

Digits == <<"0","1","2","3","4","5","6","7","8","9">>

\* The set of the elements of a sequence.
Range(s) == { s[i] : i \in 1..Len(s) }

\* F applied to the value of x.  The value is computed once, however often
\* F refers to it.
Bind(x, F(_)) == CHOOSE y \in { F(v) : v \in {x} } : TRUE

\* strings.ToUpper / strings.ToLower on one character.
ToUpperChar(c) ==
  IF \E i \in 1..26 : LowerLetters[i] = c
  THEN UpperLetters[CHOOSE i \in 1..26 : LowerLetters[i] = c]
  ELSE c

ToLowerChar(c) ==
  IF \E i \in 1..26 : UpperLetters[i] = c
  THEN LowerLetters[CHOOSE i \in 1..26 : UpperLetters[i] = c]
  ELSE c

ToLower(s) == [i \in 1..Len(s) |-> ToLowerChar(s[i])]

\* strings.Index(s, sub) as a 1-based position, 0 when sub does not occur.
IndexOf(s, sub) ==
  LET hits == { i \in 1..(Len(s) - Len(sub) + 1) :
                  SubSeq(s, i, i + Len(sub) - 1) = sub }
  IN IF hits = {} THEN 0 ELSE CHOOSE i \in hits : \A j \in hits : i <= j

StringsContains(s, sub) == IndexOf(s, sub) # 0

\* strings.Split(s, sep) for a one-character separator.
RECURSIVE StringsSplit(_, _)
StringsSplit(s, sep) ==
  Bind(IndexOf(s, <<sep>>), LAMBDA i :
    IF i = 0 THEN <<s>>
    ELSE <<SubSeq(s, 1, i - 1)>>
         \o Bind(SubSeq(s, i + 1, Len(s)), LAMBDA rest : StringsSplit(rest, sep)))

(***************************************************************************)
(* internal/config: variable substitution and column validation            *)
(***************************************************************************)

\* variableRegex = \$\{([^}]+)\} anchored at position i of t: the position of
\* the closing brace of the match that starts at i, 0 when none starts there.
VariableMatchEnd(t, i) ==
  IF /\ i + 3 <= Len(t)
     /\ t[i] = "$"
     /\ t[i + 1] = "{"
     /\ t[i + 2] # "}"
     /\ \E j \in (i + 3)..Len(t) : t[j] = "}"
  THEN CHOOSE j \in (i + 3)..Len(t) :
         /\ t[j] = "}"
         /\ \A k \in (i + 3)..(j - 1) : t[k] # "}"
  ELSE 0

\* extractVariables: the names of all leftmost, non-overlapping matches.
RECURSIVE ExtractFrom(_, _)
ExtractFrom(t, i) ==
  IF i > Len(t) THEN <<>>
  ELSE Bind(VariableMatchEnd(t, i), LAMBDA e :
         IF e = 0 THEN ExtractFrom(t, i + 1)
         ELSE <<SubSeq(t, i + 2, e - 1)>> \o ExtractFrom(t, e + 1))

extractVariables(template) == ExtractFrom(template, 1)

\* SubstituteVariables: every match is replaced by the row's value of the
\* column, or kept and recorded as missing when the row has no such column.
RECURSIVE SubstituteFrom(_, _, _)
SubstituteFrom(t, i, row) ==
  IF i > Len(t) THEN [result |-> <<>>, missingVars |-> <<>>]
  ELSE Bind(VariableMatchEnd(t, i), LAMBDA e :
         IF e = 0
         THEN Bind(SubstituteFrom(t, i + 1, row), LAMBDA r :
                [result |-> <<t[i]>> \o r.result, missingVars |-> r.missingVars])
         ELSE Bind(SubstituteFrom(t, e + 1, row), LAMBDA r :
                LET colName == SubSeq(t, i + 2, e - 1)
                IN IF colName \in DOMAIN row
                   THEN [result |-> row[colName] \o r.result,
                         missingVars |-> r.missingVars]
                   ELSE [result |-> SubSeq(t, i, e) \o r.result,
                         missingVars |-> <<colName>> \o r.missingVars]))

\* SubstituteVariables reporting only the first missing column.
SubstituteVariablesFirstOnly(template, row) ==
  Bind(SubstituteFrom(template, 1, row), LAMBDA r :
    [result |-> r.result,
     missingVars |-> IF r.missingVars = <<>> THEN <<>> ELSE <<Head(r.missingVars)>>,
     err |-> Len(r.missingVars) > 0])

\* SubstituteVariables treating a column with an empty value as absent,
\* without an error.
SubstituteVariablesKeepEmpty(template, row) ==
  Bind(SubstituteFrom(template, 1,
                      [k \in { k \in DOMAIN row : row[k] # <<>> } |-> row[k]]),
       LAMBDA r : [result |-> r.result, missingVars |-> <<>>, err |-> FALSE])

SubstituteVariables(template, row) ==
  Bind(SubstituteFrom(template, 1, row), LAMBDA r :
    [result |-> r.result, missingVars |-> r.missingVars,
     err |-> Len(r.missingVars) > 0])

\* ValidateColumns: the set of referenced columns that csvColumns lacks; the
\* call returns an error exactly when this set is not empty.
ValidateColumns(m, csvColumns) ==
  LET idMissing == IF m.IDColumn # <<>> /\ m.IDColumn \notin csvColumns
                   THEN {m.IDColumn} ELSE {}
      mapMissing == UNION { { col \in Range(extractVariables(m.Mappings[p])) :
                                col \notin csvColumns } : p \in DOMAIN m.Mappings }
  IN idMissing \cup mapMissing

(***************************************************************************)
(* internal/config: path parsing                                           *)
(***************************************************************************)

\* The value of a run of decimal digits.
RECURSIVE DigitsValue(_)
DigitsValue(ds) ==
  IF ds = <<>> THEN 0
  ELSE 10 * DigitsValue(SubSeq(ds, 1, Len(ds) - 1))
       + ((CHOOSE i \in 1..10 : Digits[i] = ds[Len(ds)]) - 1)

\* The length of the longest prefix of s whose characters are all in set.
RECURSIVE PrefixLen(_, _)
PrefixLen(s, set) ==
  IF s = <<>> \/ s[1] \notin set THEN 0
  ELSE 1 + PrefixLen(Tail(s), set)

\* fmt.Sscanf(indexStr, "%d", &index): leading blanks are skipped, one sign
\* is accepted, then the longest run of digits and underscores is taken as
\* the token and given to strconv.ParseInt(tok, 10, 64), which rejects an
\* empty token and any underscore. Input after the token is not looked at.
SscanfInt(indexStr) ==
  LET s1 == SubSeq(indexStr, PrefixLen(indexStr, {" "}) + 1, Len(indexStr))
      neg == s1 # <<>> /\ s1[1] = "-"
      s2 == IF s1 # <<>> /\ s1[1] \in {"+", "-"} THEN Tail(s1) ELSE s1
      n == PrefixLen(s2, Range(Digits) \cup {"_"})
      tok == SubSeq(s2, 1, n)
  IN IF n = 0 \/ "_" \in Range(tok)
     THEN [err |-> TRUE, index |-> 0]
     ELSE [err |-> FALSE,
           index |-> IF neg THEN 0 - DigitsValue(tok) ELSE DigitsValue(tok)]

\* The largest array index ParsePath accepts.
MaxArrayIndex == 1000

\* ParsePart leaving the opening bracket in the field name.
ParsePartFieldKeepsBracket(part) ==
  IF part = <<>> THEN [err |-> TRUE]
  ELSE IF StringsContains(part, <<"[">>)
  THEN LET openIdx == IndexOf(part, <<"[">>)
           closeIdx == IndexOf(part, <<"]">>)
       IN IF closeIdx = 0 \/ closeIdx < openIdx THEN [err |-> TRUE]
          ELSE LET sc == SscanfInt(SubSeq(part, openIdx + 1, closeIdx - 1))
               IN IF sc.err \/ sc.index < 0 \/ sc.index > MaxArrayIndex
                  THEN [err |-> TRUE]
                  ELSE [err |-> FALSE,
                        seg |-> [Field |-> SubSeq(part, 1, openIdx),
                                 HasIndex |-> TRUE, Index |-> sc.index]]
  ELSE [err |-> FALSE,
        seg |-> [Field |-> part, HasIndex |-> FALSE, Index |-> 0]]

\* One "."-separated part of a path: a PathSegment, or an error.
ParsePart(part) ==
  IF part = <<>> THEN [err |-> TRUE]
  ELSE IF StringsContains(part, <<"[">>)
  THEN LET openIdx == IndexOf(part, <<"[">>)
           closeIdx == IndexOf(part, <<"]">>)
       IN IF closeIdx = 0 \/ closeIdx < openIdx THEN [err |-> TRUE]
          ELSE LET field == SubSeq(part, 1, openIdx - 1)
                   sc == SscanfInt(SubSeq(part, openIdx + 1, closeIdx - 1))
               IN IF sc.err THEN [err |-> TRUE]
                  ELSE IF sc.index < 0 THEN [err |-> TRUE]
                  ELSE IF sc.index > MaxArrayIndex THEN [err |-> TRUE]
                  ELSE [err |-> FALSE,
                        seg |-> [Field |-> field, HasIndex |-> TRUE,
                                 Index |-> sc.index]]
  ELSE [err |-> FALSE,
        seg |-> [Field |-> part, HasIndex |-> FALSE, Index |-> 0]]

\* ParsePath: the segments of a path such as code.coding[0].system.
ParsePath(path) ==
  IF path = <<>> THEN [err |-> TRUE, segments |-> <<>>]
  ELSE IF path[1] = "." THEN [err |-> TRUE, segments |-> <<>>]
  ELSE IF path[Len(path)] = "." THEN [err |-> TRUE, segments |-> <<>>]
  ELSE IF StringsContains(path, <<".", ".">>) THEN [err |-> TRUE, segments |-> <<>>]
  ELSE Bind(StringsSplit(path, "."), LAMBDA parts :
         Bind([i \in 1..Len(parts) |-> ParsePart(parts[i])], LAMBDA parsed :
           IF \E i \in 1..Len(parts) : parsed[i].err
           THEN [err |-> TRUE, segments |-> <<>>]
           ELSE [err |-> FALSE,
                 segments |-> [i \in 1..Len(parts) |-> parsed[i].seg]]))

(***************************************************************************)
(* The type catalog: the shapes of the FHIR resource types that the        *)
(* registry names, reduced to the fields the tests write.  A type is       *)
(* string, int, bool, enum (an int kind with its own UnmarshalJSON),       *)
(* struct, ptr or slice.                                                   *)
(***************************************************************************)
n_Observation == <<"O","b","s","e","r","v","a","t","i","o","n">>
n_Patient == <<"P","a","t","i","e","n","t">>
n_Id == <<"I","d">>
n_Status == <<"S","t","a","t","u","s">>
n_Code == <<"C","o","d","e">>
n_Coding == <<"C","o","d","i","n","g">>
n_Text == <<"T","e","x","t">>
n_Subject == <<"S","u","b","j","e","c","t">>
n_Reference == <<"R","e","f","e","r","e","n","c","e">>
n_Active == <<"A","c","t","i","v","e">>
n_ValueInteger == <<"V","a","l","u","e","I","n","t","e","g","e","r">>

T_String == [k |-> "string"]
T_Int == [k |-> "int"]
T_Float == [k |-> "float"]
T_Bool == [k |-> "bool"]
T_Enum == [k |-> "enum"]
T_Struct(name) == [k |-> "struct", name |-> name]
T_Ptr(elem) == [k |-> "ptr", elem |-> elem]
T_Slice(elem) == [k |-> "slice", elem |-> elem]

\* The fields of each struct type, by Go field name.
StructFields(name) ==
  CASE name = "Observation" ->
         (n_Id :> T_Ptr(T_String)) @@ (n_Status :> T_Enum)
         @@ (n_Code :> T_Struct("CodeableConcept"))
         @@ (n_Subject :> T_Ptr(T_Struct("Reference")))
         @@ (n_ValueInteger :> T_Ptr(T_Int))
    [] name = "Patient" ->
         (n_Id :> T_Ptr(T_String)) @@ (n_Active :> T_Ptr(T_Bool))
    [] name = "CodeableConcept" ->
         (n_Coding :> T_Slice(T_Struct("Coding"))) @@ (n_Text :> T_Ptr(T_String))
    [] name = "Coding" ->
         (n_Code :> T_Ptr(T_String))
    [] name = "Reference" ->
         (n_Reference :> T_Ptr(T_String))

\* ObservationStatus.UnmarshalJSON: the codes the enum's decoder accepts and
\* the value each one sets.
v_registered == <<"r","e","g","i","s","t","e","r","e","d">>
v_preliminary == <<"p","r","e","l","i","m","i","n","a","r","y">>
v_final == <<"f","i","n","a","l">>

EnumCodes == (v_registered :> 0) @@ (v_preliminary :> 1) @@ (v_final :> 2)

\* ResourceRegistry: resource name -> struct type.
ResourceRegistry == (n_Observation :> "Observation") @@ (n_Patient :> "Patient")

\* GetResourceType: exact match first, then a case-insensitive match.
GetResourceType(name) ==
  IF name \in DOMAIN ResourceRegistry
  THEN [ok |-> TRUE, type |-> ResourceRegistry[name]]
  ELSE IF \E k \in DOMAIN ResourceRegistry : ToLower(k) = ToLower(name)
  THEN [ok |-> TRUE,
        type |-> ResourceRegistry[CHOOSE k \in DOMAIN ResourceRegistry :
                                    ToLower(k) = ToLower(name)]]
  ELSE [ok |-> FALSE, type |-> ""]

(***************************************************************************)
(* Values of the object graph.  A nil pointer is NilV, a non-nil pointer   *)
(* holds its target, a slice holds its elements, a struct its fields.      *)
(***************************************************************************)
NilV == [t |-> "nil"]
PtrV(x) == [t |-> "ptr", v |-> x]
StrV(s) == [t |-> "str", v |-> s]
IntV(i) == [t |-> "int", v |-> i]
\* A float64 that a decimal literal denotes: num / den, den a power of ten.
FloatV(num, den) == [t |-> "float", v |-> <<num, den>>]
BoolV(b) == [t |-> "bool", v |-> b]
SliceV(es) == [t |-> "slice", v |-> es]
StructV(fs) == [t |-> "struct", v |-> fs]

\* reflect.Zero / reflect.New(T).Elem(): the zero value of a type.
RECURSIVE Zero(_)
Zero(T) ==
  CASE T.k = "string" -> StrV(<<>>)
    [] T.k = "int" -> IntV(0)
    [] T.k = "enum" -> IntV(0)
    [] T.k = "float" -> FloatV(0, 1)
    [] T.k = "bool" -> BoolV(FALSE)
    [] T.k = "ptr" -> NilV
    [] T.k = "slice" -> SliceV(<<>>)
    [] T.k = "struct" ->
         StructV([f \in DOMAIN StructFields(T.name) |-> Zero(StructFields(T.name)[f])])

(***************************************************************************)
(* internal/transform: the object-graph mutator.  Every operation returns  *)
(* the error ("" for nil) and the value as the call leaves it, so that a   *)
(* failing call shows the part of the graph it had already changed.        *)
(***************************************************************************)

\* strconv.ParseInt(value, 10, 64): one optional sign, then digits only.
ParseInt(value) ==
  LET neg == value # <<>> /\ value[1] = "-"
      ds == IF value # <<>> /\ value[1] \in {"+", "-"} THEN Tail(value) ELSE value
  IN IF ds = <<>> \/ \E i \in 1..Len(ds) : ds[i] \notin Range(Digits)
     THEN [err |-> TRUE, val |-> 0]
     ELSE [err |-> FALSE,
           val |-> IF neg THEN 0 - DigitsValue(ds) ELSE DigitsValue(ds)]

\* A run of digits without its trailing zeros.
RECURSIVE StripZeros(_)
StripZeros(ds) ==
  IF ds # <<>> /\ ds[Len(ds)] = "0" THEN StripZeros(SubSeq(ds, 1, Len(ds) - 1))
  ELSE ds

RECURSIVE PowerOfTen(_)
PowerOfTen(n) == IF n = 0 THEN 1 ELSE 10 * PowerOfTen(n - 1)

\* strconv.ParseFloat(value, 64) on a literal without exponent, hex prefix,
\* underscore, "inf" or "nan": one optional sign, then digits with at most
\* one point and at least one digit.
ParseFloat(value) ==
  LET neg == value # <<>> /\ value[1] = "-"
      body == IF value # <<>> /\ value[1] \in {"+", "-"} THEN Tail(value) ELSE value
      n == PrefixLen(body, Range(Digits))
      int == SubSeq(body, 1, n)
      rest == SubSeq(body, n + 1, Len(body))
      frac == IF rest # <<>> /\ rest[1] = "." THEN Tail(rest) ELSE <<>>
      ok == /\ rest = <<>> \/ rest[1] = "."
            /\ \A i \in 1..Len(frac) : frac[i] \in Range(Digits)
            /\ Len(int) + Len(frac) > 0
  IN IF ~ok THEN [err |-> TRUE, val |-> <<0, 1>>]
     ELSE LET f == StripZeros(frac)
              m == DigitsValue(int \o f)
          IN [err |-> FALSE,
              val |-> <<IF neg THEN 0 - m ELSE m, PowerOfTen(Len(f))>>]

\* strconv.ParseBool: the literals it accepts.
BoolTrue == { <<"1">>, <<"t">>, <<"T">>, <<"T","R","U","E">>,
              <<"t","r","u","e">>, <<"T","r","u","e">> }

BoolFalse == { <<"0">>, <<"f">>, <<"F">>, <<"F","A","L","S","E">>,
               <<"f","a","l","s","e">>, <<"F","a","l","s","e">> }

ParseBool(value) ==
  IF value \in BoolTrue THEN [err |-> FALSE, val |-> TRUE]
  ELSE IF value \in BoolFalse THEN [err |-> FALSE, val |-> FALSE]
  ELSE [err |-> TRUE, val |-> FALSE]

\* Whether the pointer to a value of type T implements json.Unmarshaler.
ImplementsUnmarshaler(T) == T.k = "enum"

\* json.Unmarshal(json.Marshal(value), unmarshaler) for a type with its own
\* UnmarshalJSON: the decoder sets the field only for a code it knows.
UnmarshalJSON(T, value) ==
  IF T.k = "enum" /\ value \in DOMAIN EnumCodes
  THEN [err |-> FALSE, v |-> IntV(EnumCodes[value])]
  ELSE [err |-> TRUE, v |-> NilV]

\* A kind switch that stores the zero value for a literal it cannot parse.
setByKindZeroOnError(field, T, value) ==
  CASE T.k = "string" -> [err |-> "", v |-> StrV(value)]
    [] T.k \in {"int", "enum"} ->
         [err |-> "", v |-> IntV(ParseInt(value).val)]
    [] T.k = "float" ->
         [err |-> "", v |-> FloatV(ParseFloat(value).val[1], ParseFloat(value).val[2])]
    [] T.k = "bool" ->
         [err |-> "", v |-> BoolV(ParseBool(value).val)]
    [] T.k = "struct" -> [err |-> "cannot set struct field", v |-> field]
    [] OTHER -> [err |-> "unsupported field type", v |-> field]

\* The switch on field.Kind() of setFinalValue.
setByKind(field, T, value) ==
  CASE T.k = "string" -> [err |-> "", v |-> StrV(value)]
    [] T.k \in {"int", "enum"} ->
         LET r == ParseInt(value)
         IN IF r.err THEN [err |-> "cannot convert to int", v |-> field]
            ELSE [err |-> "", v |-> IntV(r.val)]
    [] T.k = "float" ->
         LET r == ParseFloat(value)
         IN IF r.err THEN [err |-> "cannot convert to float", v |-> field]
            ELSE [err |-> "", v |-> FloatV(r.val[1], r.val[2])]
    [] T.k = "bool" ->
         LET r == ParseBool(value)
         IN IF r.err THEN [err |-> "cannot convert to bool", v |-> field]
            ELSE [err |-> "", v |-> BoolV(r.val)]
    [] T.k = "struct" ->
         \* a JSON string never unmarshals into a struct
         [err |-> "cannot set struct field", v |-> field]
    [] OTHER -> [err |-> "unsupported field type", v |-> field]

\* setFinalValue: a nil pointer is allocated and followed; a type with its
\* own decoder is tried first, and the kind switch runs when the decoder
\* is absent or fails.
RECURSIVE setFinalValue(_, _, _)
setFinalValue(field, T, value) ==
  IF T.k = "ptr"
  THEN Bind(IF field = NilV THEN Zero(T.elem) ELSE field.v, LAMBDA target :
         Bind(setFinalValue(target, T.elem, value), LAMBDA r :
           [err |-> r.err, v |-> PtrV(r.v)]))
  ELSE IF ImplementsUnmarshaler(T) /\ ~UnmarshalJSON(T, value).err
  THEN [err |-> "", v |-> UnmarshalJSON(T, value).v]
  ELSE setByKind(field, T, value)

\* strings.ToUpper(segment.Field[:1]) + segment.Field[1:]
GoFieldName(field) == <<ToUpperChar(field[1])>> \o Tail(field)

\* A growth that makes the new slice and does not copy the old elements.
GrowSliceNoCopy(es, index, elemT) ==
  IF Len(es) <= index
  THEN [i \in 1..(index + 1) |-> Zero(elemT)]
  ELSE es

\* The slice of an indexed segment after "Ensure slice is large enough".
GrowSlice(es, index, elemT) ==
  IF Len(es) <= index
  THEN [i \in 1..(index + 1) |-> IF i <= Len(es) THEN es[i] ELSE Zero(elemT)]
  ELSE es

\* The struct v with its field fieldName replaced by the outcome r of the
\* walk below that field.
PutField(v, fieldName, r) ==
  [err |-> r.err, v |-> StructV([v.v EXCEPT ![fieldName] = r.v])]

\* An indexed element that is replaced by a new instance whenever the walk
\* descends into it.
IndexedElemFresh(grown, index, elemT) ==
  IF elemT.k = "ptr" THEN PtrV(Zero(elemT.elem)) ELSE Zero(elemT)

\* The indexed element that the walk descends into: a nil pointer element
\* is replaced by a new instance.
IndexedElem(grown, index, elemT) ==
  IF elemT.k = "ptr" /\ grown[index + 1] = NilV
  THEN PtrV(Zero(elemT.elem))
  ELSE grown[index + 1]

\* setNestedFieldValue on the value v of type T.
RECURSIVE setNestedFieldValue(_, _, _, _)
setNestedFieldValue(v, T, segments, value) ==
  IF Len(segments) = 0 THEN [err |-> "empty path", v |-> v]
  ELSE IF T.k = "ptr"
  THEN IF v = NilV THEN [err |-> "nil pointer encountered", v |-> v]
       ELSE Bind(setNestedFieldValue(v.v, T.elem, segments, value), LAMBDA r :
              [err |-> r.err, v |-> PtrV(r.v)])
  ELSE IF Len(segments[1].Field) = 0
  THEN [err |-> "empty field name in path", v |-> v]
  ELSE IF T.k # "struct"
  THEN \* reflect panics on FieldByName of a value that is no struct
       [err |-> "panic", v |-> v]
  ELSE IF GoFieldName(segments[1].Field) \notin DOMAIN StructFields(T.name)
  THEN [err |-> "field not found", v |-> v]
  ELSE
  LET segment == segments[1]
      fieldName == GoFieldName(segment.Field)
      FT == StructFields(T.name)[fieldName]
      field == v.v[fieldName]
      rest == Tail(segments)
  IN IF segment.HasIndex
     THEN IF FT.k # "slice"
          THEN [err |-> "field is not a slice/array", v |-> v]
          ELSE Bind(GrowSlice(field.v, segment.Index, FT.elem), LAMBDA grown :
                 Bind(IndexedElem(grown, segment.Index, FT.elem), LAMBDA elem :
                   Bind(IF Len(segments) = 1
                        THEN setFinalValue(elem, FT.elem, value)
                        ELSE setNestedFieldValue(elem, FT.elem, rest, value),
                        LAMBDA r :
                     PutField(v, fieldName,
                       [err |-> r.err,
                        v |-> SliceV([grown EXCEPT ![segment.Index + 1] = r.v])]))))
     ELSE IF Len(segments) = 1
     THEN Bind(setFinalValue(field, FT, value), LAMBDA r : PutField(v, fieldName, r))
     ELSE IF FT.k = "ptr"
     THEN Bind(IF field = NilV THEN PtrV(Zero(FT.elem)) ELSE field, LAMBDA target :
            Bind(setNestedFieldValue(target, FT, rest, value), LAMBDA r :
              PutField(v, fieldName, r)))
     ELSE IF FT.k = "struct"
     THEN Bind(setNestedFieldValue(field, FT, rest, value), LAMBDA r :
            PutField(v, fieldName, r))
     ELSE [err |-> "cannot navigate through field", v |-> v]

\* setFieldValue: parse the path, then walk it from the resource pointer.
setFieldValue(resource, T, path, value) ==
  Bind(ParsePath(path), LAMBDA p :
    IF p.err THEN [err |-> "invalid path", v |-> resource]
    ELSE setNestedFieldValue(resource, T, p.segments, value))

\* setResourceID: the Id field of the resource is set to the id.
setResourceID(resource, T, id) ==
  LET fields == StructFields(T.elem.name)
  IN IF n_Id \notin DOMAIN fields
     THEN [err |-> "resource has no Id field", v |-> resource]
     ELSE [err |-> "",
           v |-> PtrV(StructV([resource.v.v EXCEPT ![n_Id] =
                   IF fields[n_Id].k = "ptr" THEN PtrV(StrV(id)) ELSE StrV(id)]))]

\* createResource: a pointer to a new instance of the configured type.
createResource(cfg) ==
  LET rt == GetResourceType(cfg.Resource)
  IN IF ~rt.ok THEN [err |-> "unsupported resource type", v |-> NilV, T |-> T_Ptr(T_String)]
     ELSE [err |-> "", v |-> PtrV(Zero(T_Struct(rt.type))),
           T |-> T_Ptr(T_Struct(rt.type))]

(***************************************************************************)
(* internal/transform: the record builder                                  *)
(***************************************************************************)

\* One iteration of the defaults loop of Transform.
applyDefault(resource, T, path, template, row) ==
  Bind(SubstituteVariables(template, row), LAMBDA sub :
    IF sub.err /\ StringsContains(template, <<"$", "{">>)
    THEN [err |-> "failed to substitute variables in default", v |-> resource]
    ELSE Bind(setFieldValue(resource, T, path, sub.result), LAMBDA r :
           IF r.err # "" THEN [err |-> "failed to set default", v |-> r.v]
           ELSE r))

\* A mappings iteration that writes the empty value as well.
applyMappingUnskipped(resource, T, path, template, row) ==
  Bind(SubstituteVariables(template, row), LAMBDA sub :
    IF sub.err
    THEN [err |-> "failed to substitute variables in mapping", v |-> resource]
    ELSE Bind(setFieldValue(resource, T, path, sub.result), LAMBDA r :
           IF r.err # "" THEN [err |-> "failed to set mapping", v |-> r.v]
           ELSE r))

\* One iteration of the mappings loop of Transform.
applyMapping(resource, T, path, template, row) ==
  Bind(SubstituteVariables(template, row), LAMBDA sub :
    IF sub.err
    THEN [err |-> "failed to substitute variables in mapping", v |-> resource]
    ELSE IF sub.result = <<>> THEN [err |-> "", v |-> resource]
    ELSE Bind(setFieldValue(resource, T, path, sub.result), LAMBDA r :
           IF r.err # "" THEN [err |-> "failed to set mapping", v |-> r.v]
           ELSE r))

\* An ID step that also assigns an empty value of the id column.
applyIDEvenEmpty(resource, T, cfg, row) ==
  IF cfg.IDColumn # <<>> /\ cfg.IDColumn \in DOMAIN row
  THEN Bind(setResourceID(resource, T, row[cfg.IDColumn]), LAMBDA r :
         IF r.err # "" THEN [err |-> "failed to set resource ID", v |-> r.v]
         ELSE r)
  ELSE [err |-> "", v |-> resource]

\* The "Set resource ID if specified" step of Transform.
applyID(resource, T, cfg, row) ==
  IF cfg.IDColumn # <<>> /\ cfg.IDColumn \in DOMAIN row /\ row[cfg.IDColumn] # <<>>
  THEN Bind(setResourceID(resource, T, row[cfg.IDColumn]), LAMBDA r :
         IF r.err # "" THEN [err |-> "failed to set resource ID", v |-> r.v]
         ELSE r)
  ELSE [err |-> "", v |-> resource]

\* The defaults loop, in the order `order` that the map iteration takes.
RECURSIVE applyDefaults(_, _, _, _, _)
applyDefaults(resource, T, cfg, row, order) ==
  IF order = <<>> THEN [err |-> "", v |-> resource]
  ELSE Bind(applyDefault(resource, T, Head(order), cfg.Defaults[Head(order)], row),
            LAMBDA r :
         IF r.err # "" THEN r
         ELSE applyDefaults(r.v, T, cfg, row, Tail(order)))

\* The mappings loop, in the order `order` that the map iteration takes.
RECURSIVE applyMappings(_, _, _, _, _)
applyMappings(resource, T, cfg, row, order) ==
  IF order = <<>> THEN [err |-> "", v |-> resource]
  ELSE Bind(applyMapping(resource, T, Head(order), cfg.Mappings[Head(order)], row),
            LAMBDA r :
         IF r.err # "" THEN r
         ELSE applyMappings(r.v, T, cfg, row, Tail(order)))

\* The errors of Transform carry the row number they were given.
NoErr == [msg |-> "", row |-> 0]
\* An error that does not carry the row number.
RowErrUntagged(n, msg) == [msg |-> msg, row |-> 0]

RowErr(rowNumber, msg) == [msg |-> msg, row |-> rowNumber]

\* Transform: the built resource, or nil and a row-tagged error.  The Go
\* map iteration order is not fixed: dOrder and mOrder are the orders in
\* which this call visits the defaults and the mappings.
Transform(cfg, row, rowNumber, dOrder, mOrder) ==
  Bind(createResource(cfg), LAMBDA c :
    IF c.err # ""
    THEN [resource |-> NilV, err |-> RowErr(rowNumber, "failed to create resource")]
    ELSE Bind(applyDefaults(c.v, c.T, cfg, row, dOrder), LAMBDA d :
      IF d.err # ""
      THEN [resource |-> NilV, err |-> RowErr(rowNumber, d.err)]
      ELSE Bind(applyMappings(d.v, c.T, cfg, row, mOrder), LAMBDA m :
        IF m.err # ""
        THEN [resource |-> NilV, err |-> RowErr(rowNumber, m.err)]
        ELSE Bind(applyID(m.v, c.T, cfg, row), LAMBDA i :
          IF i.err # ""
          THEN [resource |-> NilV, err |-> RowErr(rowNumber, i.err)]
          ELSE [resource |-> i.v, err |-> NoErr]))))

\* All the orders in which a map with the keys `keys` can be iterated.
Orders(keys) ==
  { o \in [1..Cardinality(keys) -> keys] :
      \A i, j \in 1..Cardinality(keys) : i # j => o[i] # o[j] }

(***************************************************************************)
(* internal/validation                                                     *)
(***************************************************************************)

\* reflect.Value.IsZero
RECURSIVE IsZeroV(_)
IsZeroV(x) ==
  CASE x.t = "nil" -> TRUE
    [] x.t = "ptr" -> FALSE
    [] x.t = "str" -> x.v = <<>>
    [] x.t = "int" -> x.v = 0
    [] x.t = "float" -> x.v[1] = 0
    [] x.t = "bool" -> x.v = FALSE
    [] x.t = "slice" -> Len(x.v) = 0
    [] x.t = "struct" -> \A f \in DOMAIN x.v : IsZeroV(x.v[f])

\* isFieldEmpty: for every kind of the model it is the zero test.
isFieldEmpty(x) == IsZeroV(x)

\* getRequiredFields, by Go field name.
getRequiredFields(resourceType) ==
  IF resourceType = "Observation" THEN <<n_Status, n_Code>> ELSE <<>>

\* RequiredFieldsValidator.Validate: the required fields that are missing.
RequiredFieldsValidate(resource, typeName) ==
  LET req == getRequiredFields(typeName)
  IN SelectSeq(req, LAMBDA f : f \notin DOMAIN resource.v.v
                               \/ isFieldEmpty(resource.v.v[f]))

\* isValidReference
isValidReference(ref) ==
  LET letters == Range(LowerLetters) \cup Range(UpperLetters)
      slash == IndexOf(ref, <<"/">>)
      HasPrefix(p) == Len(ref) >= Len(p) /\ SubSeq(ref, 1, Len(p)) = p
  IN IF ref = <<>> THEN FALSE
     ELSE IF ref[1] = "#" THEN Len(ref) > 1
     ELSE IF HasPrefix(<<"h","t","t","p",":","/","/">>)
             \/ HasPrefix(<<"h","t","t","p","s",":","/","/">>)
             \/ HasPrefix(<<"u","r","n",":">>) THEN TRUE
     ELSE /\ slash >= 3
          /\ ref[1] \in Range(UpperLetters)
          /\ \A i \in 2..(slash - 1) : ref[i] \in letters
          /\ slash < Len(ref)
          /\ \A i \in (slash + 1)..Len(ref) : ref[i] \notin {"/", " "}

\* ReferenceValidator.Validate for the reference fields the model's types
\* have (subject): the fields whose reference string is malformed.
ReferenceValidate(resource, typeName) ==
  IF typeName # "Observation" THEN <<>>
  ELSE LET subject == resource.v.v[n_Subject]
           refString == IF subject = NilV THEN <<>>
                        ELSE IF subject.v.v[n_Reference] = NilV THEN <<>>
                        ELSE subject.v.v[n_Reference].v.v
       IN IF isFieldEmpty(subject) \/ refString = <<>> \/ isValidReference(refString)
          THEN <<>>
          ELSE << n_Subject >>

\* CompositeValidator.Validate: the issues of all validators, in order.  The
\* datetime validator checks no field that the model's types have.
Validate(resource, typeName) ==
  RequiredFieldsValidate(resource, typeName) \o ReferenceValidate(resource, typeName)

\* TransformWithValidation
TransformWithValidation(cfg, row, rowNumber, dOrder, mOrder) ==
  Bind(Transform(cfg, row, rowNumber, dOrder, mOrder), LAMBDA r :
    IF r.err # NoErr
    THEN [resource |-> NilV, validationErrors |-> <<>>, err |-> r.err]
    ELSE [resource |-> r.resource,
          validationErrors |-> Validate(r.resource, GetResourceType(cfg.Resource).type),
          err |-> NoErr])

(***************************************************************************)
(* internal/output: the writer (the output sink).  `out` is what has been  *)
(* written to the underlying io.Writer: one line per record in ndjson      *)
(* mode, one bundle in bundle mode.                                        *)
(***************************************************************************)
FormatBundle == "bundle"
FormatNDJSON == "ndjson"

\* The ceiling NewWriterWithLimit falls back to.
DefaultMaxResources == 10000

\* NewWriterWithLimit for an output path that names a file.
NewWriterWithLimit(format, maxRes) ==
  [format |-> format,
   resources |-> <<>>,
   maxResources |-> IF maxRes <= 0 THEN DefaultMaxResources ELSE maxRes,
   closed |-> FALSE,
   fileOpen |-> TRUE,
   out |-> <<>>]

\* A Write whose limit check lets one record more into the buffer.
WriterWriteOneMore(w, resource) ==
  IF w.format = FormatNDJSON
  THEN IF ~w.fileOpen
       THEN [err |-> "failed to write resource", w |-> w]
       ELSE [err |-> "",
             w |-> [w EXCEPT !.out = Append(@, [kind |-> "line",
                                                resource |-> resource])]]
  ELSE IF Len(w.resources) > w.maxResources
  THEN [err |-> "resource limit exceeded", w |-> w]
  ELSE [err |-> "", w |-> [w EXCEPT !.resources = Append(@, resource)]]

\* Writer.Write: the error ("" for nil) and the writer after the call.
WriterWrite(w, resource) ==
  IF w.format = FormatNDJSON
  THEN IF ~w.fileOpen
       THEN \* the write to the closed file fails
            [err |-> "failed to write resource", w |-> w]
       ELSE [err |-> "",
             w |-> [w EXCEPT !.out = Append(@, [kind |-> "line",
                                                resource |-> resource])]]
  ELSE IF Len(w.resources) >= w.maxResources
  THEN [err |-> "resource limit exceeded", w |-> w]
  ELSE [err |-> "", w |-> [w EXCEPT !.resources = Append(@, resource)]]

\* writeBundle: one entry per collected resource, and their number as total.
writeBundle(w) ==
  [w EXCEPT !.out = Append(@, [kind |-> "bundle",
                               entries |-> w.resources,
                               total |-> Len(w.resources)])]

\* Writer.Close
WriterClose(w) ==
  IF w.closed THEN w
  ELSE LET w1 == [w EXCEPT !.closed = TRUE]
           w2 == IF w1.format = FormatBundle /\ Len(w1.resources) > 0
                 THEN writeBundle(w1)
                 ELSE w1
       IN [w2 EXCEPT !.fileOpen = FALSE]

(***************************************************************************)
(* The inputs of a run: mapping configurations, CSV headers and rows.      *)
(***************************************************************************)
c_s == <<"s">>
c_p == <<"p">>
c_z == <<"z">>

\* csvReader.Headers(): the columns of the CSV file.  Reader.Read gives
\* every row a value for every header.
Headers == {c_s, c_p}

p_status == <<"s","t","a","t","u","s">>
p_code_text == <<"c","o","d","e",".","t","e","x","t">>
p_subject_reference ==
  <<"s","u","b","j","e","c","t",".","r","e","f","e","r","e","n","c","e">>

t_s == <<"$","{","s","}">>
t_z == <<"$","{","z","}">>
t_patient_p == <<"P","a","/","$","{","p","}">>

\* A configuration all of whose templates refer to columns of the file.
CfgGood ==
  [Resource |-> n_Observation,
   IDColumn |-> c_p,
   Defaults |-> (p_status :> v_preliminary) @@ (p_code_text :> <<"t">>),
   Mappings |-> (p_status :> t_s) @@ (p_subject_reference :> t_patient_p)]

\* The resource type is not in the registry.
CfgUnknownType == [CfgGood EXCEPT !.Resource = <<"F","o","o">>]

\* A default refers to a column the file does not have.
CfgDefaultMissingColumn == [CfgGood EXCEPT !.Defaults[p_code_text] = t_z]

\* A mapping refers to a column the file does not have.
CfgMappingMissingColumn == [CfgGood EXCEPT !.Mappings[p_status] = t_z]

\* The id_column is a column the file does not have.
CfgIDMissingColumn == [CfgGood EXCEPT !.IDColumn = c_z]

\* The configurations a run is given, by name.
RunConfigs == {"good", "unknownType", "defaultMissingColumn",
               "mappingMissingColumn", "idMissingColumn"}

Config(name) ==
  CASE name = "good" -> CfgGood
    [] name = "unknownType" -> CfgUnknownType
    [] name = "defaultMissingColumn" -> CfgDefaultMissingColumn
    [] name = "mappingMissingColumn" -> CfgMappingMissingColumn
    [] name = "idMissingColumn" -> CfgIDMissingColumn

\* A row that builds a valid record.
RowOk == (c_s :> v_final) @@ (c_p :> <<"1">>)

\* A row whose status is no code of the enum: the build fails (coercion).
RowBad == (c_s :> <<"x">>) @@ (c_p :> <<"1">>)

\* A row with empty values: the status mapping is skipped and the record's
\* subject reference "Pa/" is malformed (a validation issue).
RowEmpty == (c_s :> <<>>) @@ (c_p :> <<>>)

\* The rows a CSV file can hold, by name.
RowKinds == {"ok", "bad", "empty"}

RowData(kind) ==
  CASE kind = "ok" -> RowOk
    [] kind = "bad" -> RowBad
    [] kind = "empty" -> RowEmpty

\* The largest number of data rows of the CSV file.
MaxRows == 3

\* The largest --max-resources of a run.
MaxCeiling == 2

(***************************************************************************)
(* main.go: run().  The worker pool of the source has 4 workers and        *)
(* channels of 4 slots per worker; the model runs a smaller pool so that   *)
(* full channels are reached with MaxRows rows.                            *)
(***************************************************************************)
numWorkers == 2

\* Channel slots per worker.
SlotsPerWorker == 1

\* Channels made with twice the slots.
ChanCapDoubled == 2 * numWorkers * SlotsPerWorker

ChanCap == numWorkers * SlotsPerWorker

Workers == 1..numWorkers

\* Reader.Read numbers the first data row 2 (row 1 is the header).
RowNumbers == 2..(MaxRows + 1)

VARIABLES
  cfg,                  \* the mapping configuration (LoadMapping), by name
  buildTable,           \* what the transformer returns for each row of the run
  srcEnd,               \* the row source: "open", or how it ended ("eof", "error")
  format, maxResources, enableValidation, validationLevel,
  mainPc,               \* where run() is
  rowNumber,            \* Reader.rowNumber
  held,                 \* the job the producer is sending
  runErr,               \* the error run() returns ("" for nil)
  jobs, jobsClosed,     \* the jobs channel
  results, resultsClosed,
  wPc, wRes,            \* per worker: position, and the result it is sending
  closerPc, cPc,        \* the closer and the consumer goroutines
  rowCount, errorCount, validationErrorCount,
  writer,
  rowLog,               \* history, per row number: what happened to the row
  sinkLog,              \* history of the sink: Write calls and their timing
  build,                \* one call of Transform, statement by statement
  call                  \* one call of a function: its arguments, then its results

inputVars == <<cfg, buildTable, format, maxResources, enableValidation,
               validationLevel>>
counterVars == <<rowCount, errorCount, validationErrorCount>>
chanVars == <<jobs, jobsClosed, results, resultsClosed>>
vars == <<cfg, buildTable, srcEnd, format, maxResources, enableValidation,
          validationLevel, mainPc, rowNumber, held, runErr, jobs, jobsClosed,
          results, resultsClosed, wPc, wRes, closerPc, cPc, rowCount,
          errorCount, validationErrorCount, writer, rowLog, sinkLog, build,
          call>>

\* A job holds its row by name.  A result holds the resource as a pointer:
\* 0 is nil, and the object a worker built for row n is at address n.
NoJob == [data |-> "", rowNumber |-> 0]
NoResult == [resource |-> 0, validationErrors |-> <<>>, err |-> NoErr,
             rowNumber |-> 0]
NoWriter == [format |-> "", resources |-> <<>>, maxResources |-> 0,
             closed |-> FALSE, fileOpen |-> FALSE, out |-> <<>>]
NoLog == [taken |-> 0, built |-> "none", issues |-> 0, handled |-> 0,
          offered |-> 0, written |-> 0, outcome |-> "none", errRow |-> 0]

\* No call of Transform is being followed.
NoBuild == [pc |-> "none"]

\* No function call is being followed.
NoCall == [pc |-> "none"]

\* The order in which a call iterates over a map.  For the configurations
\* of RunConfigs no two paths address the same location and at most one
\* entry can fail, so the result does not depend on the order.
MapOrder(keys) == CHOOSE o \in Orders(keys) : TRUE

\* What Transform (t) and TransformWithValidation (tv) return for every row
\* and row number of a run with configuration c.  Of the resource the
\* pipeline looks only at whether it is nil.
BuildTable(c) ==
  [k \in RowKinds, n \in RowNumbers |->
     LET dOrder == MapOrder(DOMAIN Config(c).Defaults)
         mOrder == MapOrder(DOMAIN Config(c).Mappings)
     IN [t |-> Bind(Transform(Config(c), RowData(k), n, dOrder, mOrder),
                    LAMBDA r : [isNil |-> r.resource = NilV, err |-> r.err]),
         tv |-> Bind(TransformWithValidation(Config(c), RowData(k), n,
                                             dOrder, mOrder),
                     LAMBDA r : [isNil |-> r.resource = NilV,
                                 validationErrors |-> r.validationErrors,
                                 err |-> r.err])]]

Init ==
  /\ cfg \in RunConfigs
  /\ buildTable = BuildTable(cfg)
  /\ srcEnd = "open"
  /\ format \in {FormatBundle, FormatNDJSON}
  /\ maxResources \in 1..MaxCeiling
  /\ enableValidation \in BOOLEAN
  /\ validationLevel \in {"error", "warn"}
  \* --max-resources is not read in ndjson mode, --validation-level is not
  \* read without --validate: one value of each stands for all.
  /\ format = FormatNDJSON => maxResources = 1
  /\ ~enableValidation => validationLevel = "error"
  \* the configurations other than "good" run with the default flags
  /\ cfg # "good" => format = FormatBundle /\ maxResources = MaxCeiling
                     /\ ~enableValidation
  /\ mainPc = "start"
  /\ rowNumber = 1
  /\ held = NoJob
  /\ runErr = ""
  /\ jobs = <<>> /\ jobsClosed = FALSE
  /\ results = <<>> /\ resultsClosed = FALSE
  /\ wPc = [w \in Workers |-> "none"]
  /\ wRes = [w \in Workers |-> NoResult]
  /\ closerPc = "none" /\ cPc = "none"
  /\ rowCount = 0 /\ errorCount = 0 /\ validationErrorCount = 0
  /\ writer = NoWriter
  /\ rowLog = [r \in RowNumbers |-> NoLog]
  /\ sinkLog = [failed |-> FALSE, offeredAfterFail |-> FALSE,
                writeAfterClose |-> FALSE]
  /\ build = NoBuild
  /\ call = NoCall

\* run() up to the start of the goroutines: the columns are validated, the
\* transformer and the writer are created, workers, closer and consumer start.
MainStart ==
  /\ mainPc = "start"
  /\ IF ValidateColumns(Config(cfg), Headers) # {}
     THEN /\ runErr' = "mapping validation failed"
          /\ mainPc' = "returned"
          /\ UNCHANGED <<writer, wPc, closerPc, cPc>>
     ELSE /\ writer' = NewWriterWithLimit(format, maxResources)
          /\ wPc' = [w \in Workers |-> "recv"]
          /\ closerPc' = "wait"
          /\ cPc' = "recv"
          /\ mainPc' = "read"
          /\ UNCHANGED runErr
  /\ UNCHANGED <<build, call, inputVars, srcEnd, rowNumber, held, chanVars, wRes, counterVars,
                 rowLog, sinkLog>>

\* The producer's csvReader.Read(): the next row of the file, end of data
\* (the loop ends and jobs is closed), or a read error (run returns at once).
MainRead ==
  /\ mainPc = "read"
  /\ \/ /\ rowNumber <= MaxRows
        /\ \E data \in RowKinds :
             held' = [data |-> data, rowNumber |-> rowNumber + 1]
        /\ rowNumber' = rowNumber + 1
        /\ mainPc' = "send"
        /\ UNCHANGED <<jobsClosed, runErr, srcEnd>>
     \/ /\ srcEnd' = "eof"
        /\ jobsClosed' = TRUE
        /\ mainPc' = "wait"
        /\ UNCHANGED <<rowNumber, held, runErr>>
     \/ /\ srcEnd' = "error"
        /\ runErr' = "failed to read CSV row"
        /\ mainPc' = "deferred"
        /\ UNCHANGED <<rowNumber, held, jobsClosed>>
  /\ UNCHANGED <<build, call, inputVars, jobs, results, resultsClosed, wPc, wRes, closerPc,
                 cPc, counterVars, writer, rowLog, sinkLog>>

\* jobs <- job{...}: blocks while the channel is full.
MainSend ==
  /\ mainPc = "send"
  /\ Len(jobs) < ChanCap
  /\ jobs' = Append(jobs, held)
  /\ held' = NoJob
  /\ mainPc' = "read"
  /\ UNCHANGED <<build, call, inputVars, srcEnd, rowNumber, runErr, jobsClosed, results,
                 resultsClosed, wPc, wRes, closerPc, cPc, counterVars, writer,
                 rowLog, sinkLog>>

Alive == mainPc # "exited"

\* The result a worker builds for a job.
WorkerResult(j) ==
  IF enableValidation
  THEN LET tv == buildTable[j.data, j.rowNumber].tv
       IN [resource |-> IF tv.isNil THEN 0 ELSE j.rowNumber,
           validationErrors |-> tv.validationErrors,
           err |-> tv.err, rowNumber |-> j.rowNumber]
  ELSE LET t == buildTable[j.data, j.rowNumber].t
       IN [resource |-> IF t.isNil THEN 0 ELSE j.rowNumber,
           validationErrors |-> <<>>,
           err |-> t.err, rowNumber |-> j.rowNumber]

\* A range loop that never sees its channel closed.
RangeNeverEnds(q, closed) == FALSE

\* for x := range ch ends when the channel is closed and drained.
\* A range loop that ends as soon as the channel is closed.
RangeEndsOnClose(q, closed) == closed

RangeEnds(q, closed) == q = <<>> /\ closed

\* A receive that leaves the job in the channel.
JobsAfterRecvKept(q) == q

\* The jobs channel after a worker has received its first job.
JobsAfterRecv(q) == Tail(q)

\* for j := range jobs: a worker receives a job and transforms it.
WorkerRecv(w) ==
  /\ Alive
  /\ wPc[w] = "recv"
  /\ jobs # <<>>
  /\ \E res \in {WorkerResult(Head(jobs))} :
        /\ wRes' = [wRes EXCEPT ![w] = res]
        /\ rowLog' = [rowLog EXCEPT ![res.rowNumber] =
             [@ EXCEPT !.taken = @ + 1,
                       !.built = IF res.err # NoErr THEN "failed" ELSE "ok",
                       !.issues = Len(res.validationErrors)]]
  /\ jobs' = JobsAfterRecv(jobs)
  /\ wPc' = [wPc EXCEPT ![w] = "send"]
  /\ UNCHANGED <<build, call, inputVars, srcEnd, mainPc, rowNumber, held, runErr, jobsClosed,
                 results, resultsClosed, closerPc, cPc, counterVars, writer,
                 sinkLog>>

\* results <- res: blocks while the channel is full.
WorkerSend(w) ==
  /\ Alive
  /\ wPc[w] = "send"
  /\ Len(results) < ChanCap
  /\ results' = Append(results, wRes[w])
  /\ wRes' = [wRes EXCEPT ![w] = NoResult]
  /\ wPc' = [wPc EXCEPT ![w] = "recv"]
  /\ UNCHANGED <<build, call, inputVars, srcEnd, mainPc, rowNumber, held, runErr, jobs, jobsClosed,
                 resultsClosed, closerPc, cPc, counterVars, writer, rowLog,
                 sinkLog>>

\* The range loop of a worker ends when jobs is closed and drained: wg.Done().
WorkerExit(w) ==
  /\ Alive
  /\ wPc[w] = "recv"
  /\ RangeEnds(jobs, jobsClosed)
  /\ wPc' = [wPc EXCEPT ![w] = "exit"]
  /\ UNCHANGED <<build, call, inputVars, srcEnd, mainPc, rowNumber, held, runErr, chanVars, wRes,
                 closerPc, cPc, counterVars, writer, rowLog, sinkLog>>

\* The closer goroutine: wg.Wait(); close(results).
Closer ==
  /\ Alive
  /\ closerPc = "wait"
  /\ \A w \in Workers : wPc[w] = "exit"
  /\ resultsClosed' = TRUE
  /\ closerPc' = "done"
  /\ UNCHANGED <<build, call, inputVars, srcEnd, mainPc, rowNumber, held, runErr, jobs, jobsClosed,
                 results, wPc, wRes, cPc, counterVars, writer, rowLog, sinkLog>>

\* A loop body that forwards a flagged record whatever the validation level.
HandleResultForwardsFlagged(res, w, rc, ec, vc) ==
  IF res.err # NoErr
  THEN [writer |-> w, rowCount |-> rc, errorCount |-> ec + 1,
        validationErrorCount |-> vc, wrote |-> FALSE, writeErr |-> ""]
  ELSE LET wr == WriterWrite(w, res.resource)
       IN [writer |-> wr.w,
           rowCount |-> rc + 1,
           errorCount |-> IF wr.err # "" THEN ec + 1 ELSE ec,
           validationErrorCount |-> IF Len(res.validationErrors) > 0
                                    THEN vc + 1 ELSE vc,
           wrote |-> TRUE, writeErr |-> wr.err]

\* The body of the consumer's loop for one result: the counters and the
\* writer after it, whether writer.Write was called and what it returned.
HandleResult(res, w, rc, ec, vc) ==
  IF res.err # NoErr
  THEN [writer |-> w, rowCount |-> rc, errorCount |-> ec + 1,
        validationErrorCount |-> vc, wrote |-> FALSE, writeErr |-> ""]
  ELSE LET flagged == Len(res.validationErrors) > 0
           vc1 == IF flagged THEN vc + 1 ELSE vc
       IN IF flagged /\ validationLevel = "error"
          THEN [writer |-> w, rowCount |-> rc, errorCount |-> ec + 1,
                validationErrorCount |-> vc1, wrote |-> FALSE, writeErr |-> ""]
          ELSE LET wr == WriterWrite(w, res.resource)
               IN [writer |-> wr.w,
                   rowCount |-> rc + 1,
                   errorCount |-> IF wr.err # "" THEN ec + 1 ELSE ec,
                   validationErrorCount |-> vc1,
                   wrote |-> TRUE, writeErr |-> wr.err]

\* for res := range results: the consumer receives a result and handles it.
ConsumerHandle ==
  /\ Alive
  /\ cPc = "recv"
  /\ results # <<>>
  /\ LET res == Head(results)
         h == HandleResult(res, writer, rowCount, errorCount, validationErrorCount)
     IN /\ writer' = h.writer
        /\ rowCount' = h.rowCount
        /\ errorCount' = h.errorCount
        /\ validationErrorCount' = h.validationErrorCount
        /\ rowLog' = [rowLog EXCEPT ![res.rowNumber] =
             [@ EXCEPT !.handled = @ + 1,
                       !.offered = IF h.wrote THEN @ + 1 ELSE @,
                       !.written = IF h.wrote /\ h.writeErr = "" THEN @ + 1 ELSE @,
                       !.outcome = IF h.errorCount > errorCount THEN "rejected"
                                   ELSE "accepted",
                       !.errRow = res.err.row]]
        /\ sinkLog' = [failed |-> sinkLog.failed \/ (h.wrote /\ h.writeErr # ""),
                       offeredAfterFail |-> sinkLog.offeredAfterFail
                                            \/ (h.wrote /\ sinkLog.failed),
                       writeAfterClose |-> sinkLog.writeAfterClose
                                           \/ (h.wrote /\ writer.closed)]
  /\ results' = Tail(results)
  /\ UNCHANGED <<build, call, inputVars, srcEnd, mainPc, rowNumber, held, runErr, jobs, jobsClosed,
                 resultsClosed, wPc, wRes, closerPc, cPc>>

\* The consumer's range loop ends when results is closed and drained.
ConsumerEnd ==
  /\ Alive
  /\ cPc = "recv"
  /\ RangeEnds(results, resultsClosed)
  /\ cPc' = "signal"
  /\ UNCHANGED <<build, call, inputVars, srcEnd, mainPc, rowNumber, held, runErr, chanVars, wPc,
                 wRes, closerPc, counterVars, writer, rowLog, sinkLog>>

\* done <- true meets <-done (an unbuffered channel): the consumer ends,
\* run() prints the summary and returns nil.
DoneHandshake ==
  /\ cPc = "signal"
  /\ mainPc = "wait"
  /\ cPc' = "exit"
  /\ mainPc' = "deferred"
  /\ runErr' = ""
  /\ UNCHANGED <<build, call, inputVars, srcEnd, rowNumber, held, chanVars, wPc, wRes, closerPc,
                 counterVars, writer, rowLog, sinkLog>>

\* The deferred writer.Close() of run(), on every return after the writer
\* was created.
MainDeferredClose ==
  /\ mainPc = "deferred"
  /\ writer' = WriterClose(writer)
  /\ mainPc' = "returned"
  /\ UNCHANGED <<build, call, inputVars, srcEnd, rowNumber, held, runErr, chanVars, wPc, wRes,
                 closerPc, cPc, counterVars, rowLog, sinkLog>>

\* main() ends the process after run() has returned (log.Fatalf on an error).
MainExit ==
  /\ mainPc = "returned"
  /\ mainPc' = "exited"
  /\ UNCHANGED <<build, call, inputVars, srcEnd, rowNumber, held, runErr, chanVars, wPc, wRes,
                 closerPc, cPc, counterVars, writer, rowLog, sinkLog>>

Next ==
  \/ MainStart
  \/ MainRead
  \/ MainSend
  \/ \E w \in Workers : WorkerRecv(w)
  \/ \E w \in Workers : WorkerSend(w)
  \/ \E w \in Workers : WorkerExit(w)
  \/ Closer
  \/ ConsumerHandle
  \/ ConsumerEnd
  \/ DoneHandshake
  \/ MainDeferredClose
  \/ MainExit

Spec == Init /\ [][Next]_vars

\* The scheduler runs every goroutine that can take a step: run() itself,
\* each worker, the closer and the consumer.
Fairness ==
  /\ WF_vars(MainStart \/ MainRead \/ MainSend \/ DoneHandshake
             \/ MainDeferredClose \/ MainExit)
  /\ \A w \in Workers : WF_vars(WorkerRecv(w) \/ WorkerSend(w) \/ WorkerExit(w))
  /\ WF_vars(Closer)
  /\ WF_vars(ConsumerHandle \/ ConsumerEnd)

FairSpec == Spec /\ Fairness

(***************************************************************************)
(* Transformer.Transform, statement by statement: one call on one row,     *)
(* with the map iterations of the two loops taking their entries in any    *)
(* order.                                                                  *)
(***************************************************************************)
p_coding_code ==
  <<"c","o","d","e",".","c","o","d","i","n","g","[","0","]",".","c","o","d","e">>

t_p == <<"$","{","p","}">>

n_Foo == <<"F","o","o">>

\* The configurations and rows of the calls that are followed.  The paths
\* "status" and "code.text" are in the defaults and in the mappings.
BuildConfigs ==
  { [Resource |-> res, IDColumn |-> c_p,
     Defaults |-> (p_status :> dS) @@ (p_code_text :> dT),
     Mappings |-> (p_status :> t_s) @@ (p_code_text :> mT)
                  @@ (p_coding_code :> t_p) @@ (p_subject_reference :> mR)] :
      res \in {n_Observation, n_Foo},
      dS \in {v_preliminary, t_s},
      dT \in {<<"t">>, t_p, t_z},
      mT \in {t_p, t_s},
      mR \in {t_p, t_patient_p} }

BuildRows ==
  { (c_s :> s) @@ (c_p :> q) : s \in {<<>>, v_final, <<"x">>}, q \in {<<>>, <<"1">>} }

\* The variables of the pipeline.
pipeVars == <<inputVars, srcEnd, mainPc, rowNumber, held, runErr, chanVars, wPc,
              wRes, closerPc, cPc, counterVars, writer, rowLog, sinkLog>>

\* No pipeline runs: run() is not called.
PipelineIdle ==
  /\ cfg = "good"
  /\ buildTable = <<>>
  /\ srcEnd = "eof"
  /\ format = FormatBundle /\ maxResources = 1
  /\ enableValidation = FALSE /\ validationLevel = "error"
  /\ mainPc = "exited"
  /\ rowNumber = 1
  /\ held = NoJob
  /\ runErr = ""
  /\ jobs = <<>> /\ jobsClosed = TRUE
  /\ results = <<>> /\ resultsClosed = TRUE
  /\ wPc = [w \in Workers |-> "exit"]
  /\ wRes = [w \in Workers |-> NoResult]
  /\ closerPc = "done" /\ cPc = "exit"
  /\ rowCount = 0 /\ errorCount = 0 /\ validationErrorCount = 0
  /\ rowLog = [r \in RowNumbers |-> NoLog]
  /\ sinkLog = [failed |-> FALSE, offeredAfterFail |-> FALSE,
                writeAfterClose |-> FALSE]

\* Transform(row, rowNumber) is called; no pipeline runs.
InitBuild ==
  /\ \E c \in BuildConfigs, row \in BuildRows, n \in RowNumbers :
       build = [pc |-> "start", cfg |-> c, row |-> row,
                rowNumber |-> n, resource |-> NilV,
                T |-> T_Struct(""), dLeft |-> DOMAIN c.Defaults,
                mLeft |-> DOMAIN c.Mappings, dDone |-> <<>>, mDone |-> <<>>,
                err |-> NoErr]
  /\ call = NoCall
  /\ writer = NoWriter
  /\ PipelineIdle

\* The mappings loop runs before the defaults loop.
StepPcMappingsFirst(dLeft, mLeft) ==
  IF mLeft # {} THEN "mappings"
  ELSE IF dLeft # {} THEN "defaults"
  ELSE "id"

\* The statement that follows: the defaults loop runs to its end, then the
\* mappings loop, then the ID is set.
StepPc(dLeft, mLeft) ==
  IF dLeft # {} THEN "defaults"
  ELSE IF mLeft # {} THEN "mappings"
  ELSE "id"

\* return nil, fmt.Errorf("row %d: ...", rowNumber, ...)
BuildFailed(b, msg) ==
  [b EXCEPT !.pc = "failed", !.resource = NilV, !.err = RowErr(b.rowNumber, msg)]

\* resource, err := t.createResource()
BuildCreate ==
  /\ build.pc = "start"
  /\ LET c == createResource(build.cfg)
     IN build' = IF c.err # ""
                 THEN BuildFailed(build, "failed to create resource")
                 ELSE [build EXCEPT !.resource = c.v, !.T = c.T,
                                    !.pc = StepPc(build.dLeft, build.mLeft)]
  /\ UNCHANGED <<pipeVars, call>>

\* One iteration of "for path, value := range t.config.Defaults".
BuildDefault ==
  /\ build.pc = "defaults"
  /\ \E path \in build.dLeft :
       LET r == applyDefault(build.resource, build.T, path,
                             build.cfg.Defaults[path], build.row)
           b == [build EXCEPT !.dLeft = @ \ {path}, !.dDone = Append(@, path)]
       IN build' = IF r.err # "" THEN BuildFailed(b, r.err)
                   ELSE [b EXCEPT !.resource = r.v,
                                  !.pc = StepPc(b.dLeft, b.mLeft)]
  /\ UNCHANGED <<pipeVars, call>>

\* One iteration of "for path, template := range t.config.Mappings".
BuildMapping ==
  /\ build.pc = "mappings"
  /\ \E path \in build.mLeft :
       LET r == applyMapping(build.resource, build.T, path,
                             build.cfg.Mappings[path], build.row)
           b == [build EXCEPT !.mLeft = @ \ {path}, !.mDone = Append(@, path)]
       IN build' = IF r.err # "" THEN BuildFailed(b, r.err)
                   ELSE [b EXCEPT !.resource = r.v,
                                  !.pc = StepPc(b.dLeft, b.mLeft)]
  /\ UNCHANGED <<pipeVars, call>>

\* "Set resource ID if specified", and return resource, nil.
BuildID ==
  /\ build.pc = "id"
  /\ LET r == applyID(build.resource, build.T, build.cfg, build.row)
     IN build' = IF r.err # "" THEN BuildFailed(build, r.err)
                 ELSE [build EXCEPT !.resource = r.v, !.pc = "done"]
  /\ UNCHANGED <<pipeVars, call>>

NextBuild ==
  \/ BuildCreate
  \/ BuildDefault
  \/ BuildMapping
  \/ BuildID

SpecBuild == InitBuild /\ [][NextBuild]_vars

\* The call followed statement by statement returns what Transform returns
\* for the orders the two loops took.
BuildAgrees ==
  build.pc \in {"done", "failed"} /\ build.dLeft = {} /\ build.mLeft = {} =>
    LET t == Transform(build.cfg, build.row, build.rowNumber,
                       build.dDone, build.mDone)
    IN t.resource = build.resource /\ (t.err = NoErr) = (build.err = NoErr)

(***************************************************************************)
(* Properties of the pipeline                                              *)
(***************************************************************************)

\* The rows that Read has returned, all of which the producer has enqueued
\* by the time it reads again or stops.
ReadRows == { r \in RowNumbers : r <= rowNumber }

\* run() has returned.
RunEnded == mainPc \in {"returned", "exited"}

Rejected == { r \in RowNumbers : rowLog[r].outcome = "rejected" }

Written == { r \in RowNumbers : rowLog[r].written > 0 }

\* Transform failed on row r of this run.
BuildFails(r) == rowLog[r].built = "failed"

\* C1: when the source ends with end-of-data, every row that was read was
\* taken by exactly one worker and handled exactly once by the consumer, as
\* accepted (written to the sink) or as rejected (counted as failed); no row
\* is ever taken or handled twice, and no result exists for a row not read.
C1_EveryRowExactlyOnce ==
  /\ \A r \in RowNumbers :
       /\ rowLog[r].taken <= 1
       /\ rowLog[r].handled <= rowLog[r].taken
       /\ r \notin ReadRows => rowLog[r].taken = 0
  /\ (srcEnd = "eof" /\ mainPc \in {"deferred", "returned", "exited"}) =>
       /\ \A r \in ReadRows :
            /\ rowLog[r].taken = 1
            /\ rowLog[r].handled = 1
            /\ rowLog[r].outcome \in {"accepted", "rejected"}
            /\ rowLog[r].outcome = "accepted" => rowLog[r].written = 1
       /\ errorCount = Cardinality(Rejected)

\* A run of MaxRows rows has ended after end-of-data with rows of both
\* outcomes.
C1_Witness ==
  /\ srcEnd = "eof" /\ mainPc = "returned"
  /\ rowNumber = MaxRows + 1
  /\ \E r1, r2 \in ReadRows :
       rowLog[r1].outcome = "accepted" /\ rowLog[r2].outcome = "rejected"

C3_NoJobAbandoned ==
  (srcEnd = "error" /\ RunEnded) =>
     \A r \in ReadRows : rowLog[r].taken = 1 /\ rowLog[r].handled = 1

\* The consumer's handling of a result that carries a build error leaves
\* the sink and the count of processed rows as they were, counts one
\* failure, and leaves the consumer and run() where they were.
FailedResultStep ==
  (/\ cPc = "recv" /\ results # <<>> /\ Head(results).err # NoErr
   /\ results' = Tail(results))
  => /\ writer' = writer
     /\ rowCount' = rowCount
     /\ errorCount' = errorCount + 1
     /\ cPc' = cPc /\ mainPc' = mainPc /\ runErr' = runErr

C5_WriteErrorStopsRun ==
  sinkLog.failed =>
     /\ ~sinkLog.offeredAfterFail
     /\ rowCount = Cardinality(Written)
     /\ RunEnded => runErr # ""

\* C6: with a resource type that is not in the registry no row is taken by
\* a worker, and run() returns a non-nil error.
C6_UnknownTypeFatal ==
  ~GetResourceType(Config(cfg).Resource).ok =>
     /\ \A r \in RowNumbers : rowLog[r].taken = 0
     /\ RunEnded => runErr # ""

\* C7: run() does not reach its deferred writer.Close() while the consumer
\* goroutine can still call writer.Write, and Write is never called on the
\* closed writer.  (The worker actions leave writer, the counters and cfg
\* unchanged.)
C7_SinkSingleMutator ==
  /\ mainPc = "deferred" => cPc = "exit"
  /\ ~sinkLog.writeAfterClose

\* The columns that the templates of the mappings and of the defaults and
\* the id_column of a configuration refer to.
ReferencedColumns(m) ==
  UNION { Range(extractVariables(m.Mappings[p])) : p \in DOMAIN m.Mappings }
  \cup UNION { Range(extractVariables(m.Defaults[p])) : p \in DOMAIN m.Defaults }
  \cup (IF m.IDColumn # <<>> THEN {m.IDColumn} ELSE {})

\* C8: a configuration that refers to a column the file does not have is
\* rejected by run() before a row is read: run() returns the validation
\* error and no job is enqueued.
C8_UnknownColumnRejected ==
  ~(ReferencedColumns(Config(cfg)) \subseteq Headers) =>
     /\ mainPc # "start" => runErr = "mapping validation failed"
     /\ rowNumber = 1 /\ held = NoJob /\ jobs = <<>>

(***************************************************************************)
(* Properties of Transform                                                 *)
(***************************************************************************)

p_code_coding == <<"c","o","d","e",".","c","o","d","i","n","g">>

p_subject == <<"s","u","b","j","e","c","t">>

\* The value at a path of the object graph, pointers followed.
RECURSIVE FieldAt(_, _)
FieldAt(v, segments) ==
  IF v.t = "ptr" THEN FieldAt(v.v, segments)
  ELSE IF segments = <<>> \/ v.t # "struct" THEN v
  ELSE FieldAt(v.v[GoFieldName(segments[1].Field)], Tail(segments))

\* The value that the path holds in a new record to which only `value` is
\* written at the path.
Written1(path, value) ==
  FieldAt(setFieldValue(createResource(build.cfg).v, build.T, path, value).v,
          ParsePath(path).segments)

BothPaths == DOMAIN build.cfg.Defaults \cap DOMAIN build.cfg.Mappings

MappingValue(path) ==
  SubstituteVariables(build.cfg.Mappings[path], build.row).result

DefaultValue(path) ==
  SubstituteVariables(build.cfg.Defaults[path], build.row).result

\* C9: in the built record a path that is in the defaults and in the
\* mappings holds the substituted mapping value when that is not empty and
\* the substituted default value when it is, whatever the order of the map
\* iterations.
C9_MappingWinsUnlessEmpty ==
  build.pc = "done" =>
    \A path \in BothPaths :
      FieldAt(build.resource, ParsePath(path).segments)
        = Written1(path,
                   IF MappingValue(path) # <<>> THEN MappingValue(path)
                   ELSE DefaultValue(path))

\* A record is built in which one path holds its mapping value, different
\* from its default, and another held on to its default because its mapping
\* value is empty.
C9_Witness ==
  /\ build.pc = "done"
  /\ \E p1, p2 \in BothPaths :
       /\ MappingValue(p1) # <<>> /\ MappingValue(p1) # DefaultValue(p1)
       /\ FieldAt(build.resource, ParsePath(p1).segments)
            = Written1(p1, MappingValue(p1))
       /\ MappingValue(p2) = <<>> /\ DefaultValue(p2) # <<>>
       /\ FieldAt(build.resource, ParsePath(p2).segments)
            = Written1(p2, DefaultValue(p2))

\* The iteration of the mappings loop that a step takes, when it takes one.
MappingStep(path) ==
  /\ build.pc = "mappings"
  /\ path \in build.mLeft
  /\ build'.mDone = Append(build.mDone, path)

\* C10: an iteration of the mappings loop whose substituted value is empty
\* leaves the record exactly as it was and does not fail the build.
C10_EmptyMappingSkipped ==
  [][\A path \in DOMAIN build.cfg.Mappings :
       (MappingStep(path) /\ MappingValue(path) = <<>>) =>
          /\ build'.resource = build.resource
          /\ build'.pc # "failed"]_vars

\* A record is built after the mapping of an indexed path below a
\* container was skipped: the array is still empty and the pointer nil.
C10_Witness ==
  /\ build.pc = "done"
  /\ MappingValue(p_coding_code) = <<>>
  /\ MappingValue(p_subject_reference) = <<>>
  /\ FieldAt(build.resource, ParsePath(p_code_coding).segments) = SliceV(<<>>)
  /\ FieldAt(build.resource, ParsePath(p_subject).segments) = NilV

(***************************************************************************)
(* Calls of SubstituteVariables                                            *)
(***************************************************************************)
c_a == <<"a">>
c_b == <<"b">>

\* The pieces that the templates of the calls are made of: single
\* characters, placeholders of the columns a and b, and an empty pair of
\* braces.
TemplatePieces ==
  { <<"$">>, <<"{">>, <<"}">>, <<"a">>, <<"b">>,
    <<"$","{","a","}">>, <<"$","{","b","}">>, <<"$","{","}">> }

\* The largest number of pieces of a template.
MaxPieces == 4

\* The concatenation of a sequence of strings.
RECURSIVE Concat(_)
Concat(ss) == IF ss = <<>> THEN <<>> ELSE Head(ss) \o Concat(Tail(ss))

Templates ==
  { Concat(ps) : ps \in UNION { [1..k -> TemplatePieces] : k \in 0..MaxPieces } }

\* The rows of the calls: column a is absent, empty or "x"; column b is
\* absent or holds the text of a placeholder.
SubstRows ==
  { r \in UNION { [D -> {<<>>, <<"x">>, <<"$","{","a","}">>}] :
                    D \in SUBSET {c_a, c_b} } :
      /\ c_a \in DOMAIN r => r[c_a] \in {<<>>, <<"x">>}
      /\ c_b \in DOMAIN r => r[c_b] = <<"$","{","a","}">> }

\* No call has returned a result.
NoSubst == [result |-> <<>>, missingVars |-> <<>>, err |-> FALSE]

InitSubst ==
  /\ \E t \in Templates, r \in SubstRows :
       call = [pc |-> "call", template |-> t, row |-> r, ret |-> NoSubst]
  /\ build = NoBuild
  /\ writer = NoWriter
  /\ PipelineIdle

\* result, err := SubstituteVariables(template, row)
CallSubstitute ==
  /\ call.pc = "call"
  /\ call' = [call EXCEPT !.pc = "returned",
                          !.ret = SubstituteVariables(call.template, call.row)]
  /\ UNCHANGED <<pipeVars, build>>

SpecSubst == InitSubst /\ [][CallSubstitute]_vars

\* The names of the template's placeholders that are no column of the row.
AbsentNames ==
  { n \in Range(extractVariables(call.template)) : n \notin DOMAIN call.row }

\* C11: SubstituteVariables returns an error exactly when a placeholder of
\* the template names a column that the row does not have, and the error
\* then lists every such name.
C11_FailsIffAbsentListsAll ==
  call.pc = "returned" =>
    /\ call.ret.err <=> AbsentNames # {}
    /\ call.ret.err => Range(call.ret.missingVars) = AbsentNames

\* A call has failed on a template with two placeholders of absent columns.
C11_Witness ==
  /\ call.pc = "returned"
  /\ call.ret.err
  /\ Cardinality(AbsentNames) >= 2
  /\ Range(call.ret.missingVars) = AbsentNames

\* The text "${name}" of a placeholder.
PlaceholderText(name) == <<"$", "{">> \o name \o <<"}">>

\* The template with, from left to right, the first occurrence of each
\* placeholder's text replaced by the row's value of its column.
RECURSIVE ReplaceInOrder(_, _, _)
ReplaceInOrder(t, names, row) ==
  IF names = <<>> THEN t
  ELSE LET tok == PlaceholderText(Head(names))
           i == IndexOf(t, tok)
       IN SubSeq(t, 1, i - 1) \o row[Head(names)]
          \o ReplaceInOrder(SubSeq(t, i + Len(tok), Len(t)), Tail(names), row)

\* C12: when every placeholder of the template names a column of the row,
\* SubstituteVariables succeeds and returns the template with every
\* placeholder replaced by the column's value and the text between the
\* placeholders as it was; a template without a placeholder is returned
\* unchanged.
C12_SubstitutesAllPresent ==
  (call.pc = "returned" /\ AbsentNames = {}) =>
    /\ ~call.ret.err
    /\ call.ret.result
         = ReplaceInOrder(call.template, extractVariables(call.template), call.row)
    /\ extractVariables(call.template) = <<>> => call.ret.result = call.template

\* A call has succeeded on a template with text around a placeholder whose
\* column is empty: the result is the text alone.
C12_Witness ==
  /\ call.pc = "returned"
  /\ ~call.ret.err
  /\ c_a \in DOMAIN call.row /\ call.row[c_a] = <<>>
  /\ call.template = <<"b", "$", "{", "a", "}", "b">>
  /\ call.ret.result = <<"b", "b">>

(***************************************************************************)
(* Calls of ParsePath                                                      *)
(***************************************************************************)
\* The pieces that the paths of the calls are made of: single characters
\* and the bracketed indices at and above the limit.
PathPieces ==
  { <<"a">>, <<".">>, <<"[">>, <<"]">>, <<"0">>, <<"1">>, <<"-">>,
    <<"[","1","0","0","0","]">>, <<"[","1","0","0","1","]">> }

\* The largest number of pieces of a path.
MaxPathPieces == 5

Paths ==
  { Concat(ps) : ps \in UNION { [1..k -> PathPieces] : k \in 0..MaxPathPieces } }

\* No call has returned a result.
NoParse == [err |-> FALSE, segments |-> <<>>]

InitParse ==
  /\ \E p \in Paths : call = [pc |-> "call", path |-> p, ret |-> NoParse]
  /\ build = NoBuild
  /\ writer = NoWriter
  /\ PipelineIdle

\* segments, err := ParsePath(path)
CallParsePath ==
  /\ call.pc = "call"
  /\ call' = [call EXCEPT !.pc = "returned", !.ret = ParsePath(call.path)]
  /\ UNCHANGED <<pipeVars, build>>

SpecParse == InitParse /\ [][CallParsePath]_vars

\* The "."-separated parts of the path of the call.
CallParts == StringsSplit(call.path, ".")

\* The part has an opening bracket and no closing bracket after it.
Unclosed(part) ==
  /\ "[" \in Range(part)
  /\ ~ \E j \in 1..Len(part) : part[j] = "]" /\ j > IndexOf(part, <<"[">>)

\* The text between the part's first opening bracket and the first closing
\* bracket after it.
IndexText(part) ==
  LET o == IndexOf(part, <<"[">>)
      c == CHOOSE j \in (o + 1)..Len(part) :
             part[j] = "]" /\ \A k \in (o + 1)..(j - 1) : part[k] # "]"
  IN SubSeq(part, o + 1, c - 1)

\* The text is a number: digits after at most one sign.
IsNumber(s) ==
  LET d == IF s # <<>> /\ s[1] \in {"+", "-"} THEN Tail(s) ELSE s
  IN d # <<>> /\ Range(d) \subseteq Range(Digits)

\* The value of a number.
NumberValue(s) ==
  IF s[1] = "-" THEN 0 - DigitsValue(Tail(s))
  ELSE IF s[1] = "+" THEN DigitsValue(Tail(s)) ELSE DigitsValue(s)

\* The part has a bracketed index that is not a number, is negative or is
\* above the limit.
BadIndex(part) ==
  /\ "[" \in Range(part)
  /\ ~Unclosed(part)
  /\ \/ ~IsNumber(IndexText(part))
     \/ /\ IsNumber(IndexText(part))
        /\ \/ NumberValue(IndexText(part)) < 0
           \/ NumberValue(IndexText(part)) > MaxArrayIndex

\* The path is one of those that ParsePath is to reject.
Malformed(path) ==
  \/ path = <<>>
  \/ /\ path # <<>>
     /\ \/ path[1] = "."
        \/ path[Len(path)] = "."
        \/ StringsContains(path, <<".", ".">>)
        \/ \E i \in 1..Len(StringsSplit(path, ".")) :
             \/ Unclosed(StringsSplit(path, ".")[i])
             \/ BadIndex(StringsSplit(path, ".")[i])

\* C13: ParsePath returns an error for every path that is empty, starts or
\* ends with ".", contains "..", has a part with an opening bracket and no
\* closing bracket after it, or has a bracketed index that is negative, not
\* a number or greater than 1000.
C13_MalformedRejected ==
  (call.pc = "returned" /\ Malformed(call.path)) => call.ret.err

\* A call has accepted a path whose bracketed index is not a number.
C13_AcceptsNonNumber ==
  /\ call.pc = "returned"
  /\ call.path = <<"a", "[", "1", "a", "]">>
  /\ ~call.ret.err
  /\ call.ret.segments[1].Index = 1

\* The digits written in the brackets of the part.
WrittenDigits(part) ==
  SelectSeq(IndexText(part), LAMBDA ch : ch \in Range(Digits))

\* C14: when ParsePath succeeds there is one segment per "."-separated
\* part, in the order of the parts; every segment has a non-empty field
\* name and either no index or an index in 0..1000 that equals the digits
\* written in the brackets; a[1000] is accepted and a[1001] is rejected.
C14_SegmentsWellFormed ==
  call.pc = "returned" =>
    /\ ~call.ret.err =>
         /\ Len(call.ret.segments) = Len(CallParts)
         /\ \A i \in 1..Len(call.ret.segments) :
              LET seg == call.ret.segments[i]
                  part == CallParts[i]
              IN /\ seg.Field # <<>>
                 /\ seg.HasIndex <=> "[" \in Range(part)
                 /\ ~seg.HasIndex => seg.Field = part
                 /\ seg.HasIndex =>
                      /\ seg.Field = SubSeq(part, 1, IndexOf(part, <<"[">>) - 1)
                      /\ seg.Index \in 0..MaxArrayIndex
                      /\ seg.Index = DigitsValue(WrittenDigits(part))
    /\ call.path = <<"a", "[", "1", "0", "0", "0", "]">> =>
         ~call.ret.err /\ call.ret.segments[1].Index = MaxArrayIndex
    /\ call.path = <<"a", "[", "1", "0", "0", "1", "]">> => call.ret.err

\* A call has accepted a path whose segment has an empty field name.
C14_AcceptsEmptyField ==
  /\ call.pc = "returned"
  /\ call.path = <<"[", "0", "]">>
  /\ ~call.ret.err
  /\ call.ret.segments[1].Field = <<>>

\* The decimal digits of a natural number.
RECURSIVE IntToDigits(_)
IntToDigits(n) ==
  IF n < 10 THEN <<Digits[n + 1]>>
  ELSE IntToDigits(n \div 10) \o <<Digits[(n % 10) + 1]>>

\* The segments written back: field or field[index], joined by ".".
RECURSIVE Serialize(_)
Serialize(segments) ==
  IF segments = <<>> THEN <<>>
  ELSE LET seg == Head(segments)
           one == IF seg.HasIndex
                  THEN seg.Field \o <<"[">> \o IntToDigits(seg.Index) \o <<"]">>
                  ELSE seg.Field
       IN IF Tail(segments) = <<>> THEN one
          ELSE one \o <<".">> \o Serialize(Tail(segments))

\* C15: for every path that ParsePath accepts, the segments written back
\* as field or field[index] joined by "." parse again, to the same
\* segments in the same order.
C15_RoundTrip ==
  (call.pc = "returned" /\ ~call.ret.err) =>
    /\ ~ParsePath(Serialize(call.ret.segments)).err
    /\ ParsePath(Serialize(call.ret.segments)).segments = call.ret.segments

\* A call has accepted a path whose index is written with a leading zero,
\* and the segments written back differ from the path and parse to the same
\* segments.
C15_Witness ==
  /\ call.pc = "returned"
  /\ ~call.ret.err
  /\ call.path = <<"a", "[", "0", "1", "]">>
  /\ Serialize(call.ret.segments) = <<"a", "[", "1", "]">>
  /\ ParsePath(Serialize(call.ret.segments)).segments = call.ret.segments

(***************************************************************************)
(* Calls of setFieldValue on one record                                    *)
(***************************************************************************)
\* The largest array index of the calls.
MaxIndex == 2

\* The largest number of calls on one record.
MaxSets == 3

\* code.coding[i].code
CodingCode(i) ==
  <<"c","o","d","e",".","c","o","d","i","n","g","[">> \o IntToDigits(i)
  \o <<"]",".","c","o","d","e">>

CodingPaths == { CodingCode(i) : i \in 0..MaxIndex }

\* code.coding[1].foo: the array is grown before the unknown field is met.
p_coding1_foo ==
  <<"c","o","d","e",".","c","o","d","i","n","g","[","1","]",".","f","o","o">>

p_valueInteger == <<"v","a","l","u","e","I","n","t","e","g","e","r">>

SetPaths ==
  CodingPaths \cup { p_status, p_code_text, p_subject_reference,
                     p_valueInteger, p_coding1_foo }

SetValues == { v_final, <<"1">>, <<"x">> }

InitSet ==
  /\ call = [pc |-> "idle", n |-> 0,
             T |-> createResource(CfgGood).T,
             resource |-> createResource(CfgGood).v,
             before |-> createResource(CfgGood).v,
             path |-> <<>>, value |-> <<>>, err |-> "", hist |-> <<>>]
  /\ build = NoBuild
  /\ writer = NoWriter
  /\ PipelineIdle

\* err := t.setFieldValue(resource, path, value)
CallSetFieldValue ==
  /\ call.n < MaxSets
  /\ \E p \in SetPaths, val \in SetValues :
       \E r \in { setFieldValue(call.resource, call.T, p, val) } :
         call' = [call EXCEPT !.pc = "returned", !.n = call.n + 1,
                              !.resource = r.v, !.before = call.resource,
                              !.path = p, !.value = val, !.err = r.err,
                              !.hist = Append(call.hist,
                                         [path |-> p, value |-> val, err |-> r.err])]
  /\ UNCHANGED <<pipeVars, build>>

SpecSet == InitSet /\ [][CallSetFieldValue]_vars

\* The elements of code.coding of the record.
CodingOf(resource) == resource.v.v[n_Code].v[n_Coding].v

\* The value of the last call that wrote the path.
LastValue(path) ==
  call.hist[CHOOSE k \in 1..Len(call.hist) :
              /\ call.hist[k].path = path
              /\ \A j \in (k + 1)..Len(call.hist) : call.hist[j].path # path].value

\* The indices whose code.coding[i].code the calls have written.
WrittenIndices ==
  { i \in 0..MaxIndex : \E k \in 1..Len(call.hist) : call.hist[k].path = CodingCode(i) }

\* C16: after any indexed writes code.coding[i].code to a new record, in
\* any order and with repetitions, every write has succeeded, the array has
\* length max index + 1, every written element holds the value last written
\* to it and every other element is empty.
C16_GrowthOrderIndependent ==
  (call.hist # <<>> /\ \A k \in 1..Len(call.hist) : call.hist[k].path \in CodingPaths) =>
    /\ \A k \in 1..Len(call.hist) : call.hist[k].err = ""
    /\ Len(CodingOf(call.resource))
         = 1 + CHOOSE m \in WrittenIndices : \A i \in WrittenIndices : i <= m
    /\ \A i \in 0..(Len(CodingOf(call.resource)) - 1) :
         CodingOf(call.resource)[i + 1] =
           IF i \in WrittenIndices
           THEN StructV(n_Code :> PtrV(StrV(LastValue(CodingCode(i)))))
           ELSE Zero(T_Struct("Coding"))

\* Index 1 has been written before index 0, and both elements hold their
\* values.
C16_Witness ==
  /\ Len(call.hist) = 2
  /\ call.hist[1].path = CodingCode(1) /\ call.hist[1].value = <<"x">>
  /\ call.hist[2].path = CodingCode(0) /\ call.hist[2].value = v_final
  /\ Len(CodingOf(call.resource)) = 2
  /\ CodingOf(call.resource)[1] = StructV(n_Code :> PtrV(StrV(v_final)))
  /\ CodingOf(call.resource)[2] = StructV(n_Code :> PtrV(StrV(<<"x">>)))

\* The type of the field that the path ends at, pointers followed, or no
\* type when the path leaves the catalog.
RECURSIVE TerminalType(_, _)
TerminalType(T, segments) ==
  IF T.k = "ptr" THEN TerminalType(T.elem, segments)
  ELSE IF segments = <<>> THEN T
  ELSE IF T.k # "struct" \/ segments[1].Field = <<>> THEN [k |-> "none"]
  ELSE IF GoFieldName(segments[1].Field) \notin DOMAIN StructFields(T.name)
  THEN [k |-> "none"]
  ELSE LET FT == StructFields(T.name)[GoFieldName(segments[1].Field)]
       IN IF segments[1].HasIndex
          THEN IF FT.k = "slice" THEN TerminalType(FT.elem, Tail(segments))
               ELSE [k |-> "none"]
          ELSE TerminalType(FT, Tail(segments))

\* The value at a path of the object graph, pointers and indices followed.
RECURSIVE ValueAt(_, _)
ValueAt(v, segments) ==
  IF segments = <<>> THEN v
  ELSE IF v.t = "ptr" THEN ValueAt(v.v, segments)
  ELSE IF v.t # "struct" THEN NilV
  ELSE LET f == v.v[GoFieldName(segments[1].Field)]
       IN IF segments[1].HasIndex
          THEN IF Len(f.v) <= segments[1].Index THEN NilV
               ELSE ValueAt(f.v[segments[1].Index + 1], Tail(segments))
          ELSE ValueAt(f, Tail(segments))

\* The path of the last call ends at a field whose type has its own decoder.
DecoderCall ==
  /\ call.pc = "returned"
  /\ ImplementsUnmarshaler(TerminalType(call.T, ParsePath(call.path).segments))

\* C17: a call whose path ends at a field with its own decoder succeeds
\* only if the decoder accepts the literal; when the decoder rejects it the
\* call returns an error and the field keeps the value it had.
C17_DecoderExclusive ==
  DecoderCall =>
    LET T == TerminalType(call.T, ParsePath(call.path).segments)
    IN /\ call.err = "" => ~UnmarshalJSON(T, call.value).err
       /\ UnmarshalJSON(T, call.value).err =>
            /\ call.err # ""
            /\ ValueAt(call.resource, ParsePath(call.path).segments)
                 = ValueAt(call.before, ParsePath(call.path).segments)

\* A call has set status from the literal "1", which the decoder of the
\* status type rejects.
C17_AcceptsByKind ==
  /\ call.pc = "returned"
  /\ call.path = p_status /\ call.value = <<"1">>
  /\ call.err = ""
  /\ ValueAt(call.resource, ParsePath(p_status).segments) = IntV(1)
  /\ ValueAt(call.before, ParsePath(p_status).segments) = IntV(0)

\* The value b before and the value a after a call differ only on the
\* spine of the path: a container that exists is kept and descended into,
\* a container that is missing may be allocated, an array may grow by empty
\* elements, and the location the path ends at may change.
RECURSIVE SameOffSpine(_, _, _, _)
SameOffSpine(b, a, T, segments) ==
  IF T.k = "ptr"
  THEN IF b = NilV
       THEN a = NilV \/ (a.t = "ptr" /\ SameOffSpine(Zero(T.elem), a.v, T.elem, segments))
       ELSE a.t = "ptr" /\ SameOffSpine(b.v, a.v, T.elem, segments)
  ELSE IF segments = <<>> THEN TRUE
  ELSE IF T.k # "struct" \/ segments[1].Field = <<>> THEN a = b
  ELSE IF GoFieldName(segments[1].Field) \notin DOMAIN StructFields(T.name)
  THEN a = b
  ELSE LET f == GoFieldName(segments[1].Field)
           FT == StructFields(T.name)[f]
       IN /\ a.t = "struct"
          /\ \A g \in DOMAIN b.v : g # f => a.v[g] = b.v[g]
          /\ IF segments[1].HasIndex
             THEN IF FT.k # "slice" THEN a.v[f] = b.v[f]
                  ELSE /\ Len(a.v[f].v) >= Len(b.v[f].v)
                       /\ \A j \in 1..Len(a.v[f].v) :
                            IF j = segments[1].Index + 1
                            THEN SameOffSpine(IF j <= Len(b.v[f].v) THEN b.v[f].v[j]
                                              ELSE Zero(FT.elem),
                                              a.v[f].v[j], FT.elem, Tail(segments))
                            ELSE a.v[f].v[j] = IF j <= Len(b.v[f].v) THEN b.v[f].v[j]
                                               ELSE Zero(FT.elem)
             ELSE SameOffSpine(b.v[f], a.v[f], FT, Tail(segments))

\* The paths of the calls that end at a text field.
TextPaths == CodingPaths \cup { p_code_text, p_subject_reference }

\* C18: a call, successful or not, changes the record only on the spine of
\* its path, and the text that an earlier successful call wrote at another
\* path is still there.
C18_OnlySpineChanges ==
  call.pc = "returned" =>
    /\ IF ParsePath(call.path).err THEN call.resource = call.before
       ELSE SameOffSpine(call.before, call.resource, call.T,
                         ParsePath(call.path).segments)
    /\ \A k \in 1..Len(call.hist) :
         ( /\ call.hist[k].path \in TextPaths
           /\ call.hist[k].err = ""
           /\ \A j \in (k + 1)..Len(call.hist) :
                call.hist[j].path # call.hist[k].path ) =>
           ValueAt(call.resource, ParsePath(call.hist[k].path).segments)
             = PtrV(StrV(call.hist[k].value))

\* A failed call through code.coding[1] has grown nothing and lost nothing:
\* the code written to that element and the text written beside the array
\* are still there.
C18_Witness ==
  /\ Len(call.hist) = 3
  /\ call.hist[1].path = p_code_text /\ call.hist[1].value = <<"x">>
  /\ call.hist[2].path = CodingCode(1) /\ call.hist[2].value = v_final
  /\ call.hist[3].path = p_coding1_foo /\ call.err # ""
  /\ ValueAt(call.resource, ParsePath(p_code_text).segments) = PtrV(StrV(<<"x">>))
  /\ ValueAt(call.resource, ParsePath(CodingCode(1)).segments) = PtrV(StrV(v_final))

(***************************************************************************)
(* Calls of Write and Close on one writer                                  *)
(***************************************************************************)
\* The largest number of calls on one writer.
MaxCalls == 4

\* The resources of the calls.  Write takes any value (interface{}) and
\* does not look into it, so a resource is named by a number here.
WriterResources == {1, 2}

\* A new writer, or a bundle writer that has taken all the records but the
\* last one that its ceiling admits.
InitWriter ==
  /\ \E f \in {FormatBundle, FormatNDJSON}, m \in (0 - 1)..MaxCeiling :
       \E w \in { NewWriterWithLimit(f, m) } :
         \E n \in IF f = FormatBundle THEN {0, w.maxResources - 1} ELSE {0} :
           /\ writer = [w EXCEPT !.resources =
                          [i \in 1..n |-> 1]]
           /\ call = [pc |-> "new", n |-> 0, maxRes |-> m, before |-> writer,
                      resource |-> 0, err |-> "",
                      accepted |-> writer.resources]
  /\ build = NoBuild
  /\ PipelineIdle

\* err := writer.Write(resource)
CallWrite ==
  /\ call.n < MaxCalls
  /\ \E res \in WriterResources :
       \E r \in { WriterWrite(writer, res) } :
         /\ writer' = r.w
         /\ call' = [call EXCEPT !.pc = "write", !.n = call.n + 1,
                                 !.before = writer, !.resource = res,
                                 !.err = r.err,
                                 !.accepted = IF r.err = "" THEN Append(@, res)
                                              ELSE @]
  /\ UNCHANGED <<inputVars, srcEnd, mainPc, rowNumber, held, runErr, chanVars,
                 wPc, wRes, closerPc, cPc, counterVars, rowLog, sinkLog, build>>

\* err := writer.Close()
CallClose ==
  /\ call.n < MaxCalls
  /\ writer' = WriterClose(writer)
  /\ call' = [call EXCEPT !.pc = "close", !.n = call.n + 1,
                          !.before = writer, !.resource = 0, !.err = ""]
  /\ UNCHANGED <<inputVars, srcEnd, mainPc, rowNumber, held, runErr, chanVars,
                 wPc, wRes, closerPc, cPc, counterVars, rowLog, sinkLog, build>>

NextWriter == CallWrite \/ CallClose

SpecWriter == InitWriter /\ [][NextWriter]_vars

\* The ceiling that the writer was asked for.
Ceiling == IF call.maxRes <= 0 THEN DefaultMaxResources ELSE call.maxRes

\* C19: a bundle writer never holds more records than its ceiling, which is
\* 10000 when a ceiling <= 0 was asked for; its Write succeeds and adds the
\* record while fewer records than the ceiling are held, fails once the
\* ceiling is reached, and a failed Write leaves the held records as they
\* were.  The Write of an ndjson writer that is open never fails.
C19_BufferBounded ==
  /\ writer.maxResources = Ceiling
  /\ writer.format = FormatBundle => Len(writer.resources) <= Ceiling
  /\ (call.pc = "write" /\ writer.format = FormatBundle) =>
       IF Len(call.before.resources) < Ceiling
       THEN /\ call.err = ""
            /\ writer.resources = Append(call.before.resources, call.resource)
       ELSE /\ call.err # ""
            /\ writer.resources = call.before.resources
  /\ (call.pc = "write" /\ writer.format = FormatNDJSON /\ ~call.before.closed) =>
       /\ call.err = ""
       /\ writer.resources = <<>>

\* A bundle writer that was asked for no ceiling holds 10000 records and
\* has refused one more.
C19_Witness ==
  /\ writer.format = FormatBundle
  /\ call.maxRes <= 0
  /\ call.pc = "write"
  /\ call.err # ""
  /\ Len(call.before.resources) = DefaultMaxResources
  /\ writer.resources = call.before.resources

\* The bundles that the writer has emitted.
BundlesEmitted ==
  { i \in DOMAIN writer.out : writer.out[i].kind = "bundle" }

\* C20: in a run that has created the writer, the writer is closed when
\* run() has returned, no record is offered to it after it was closed, at
\* most one bundle is emitted, and a second Close changes nothing.
C20_FinalizedOnceAfterLast ==
  writer # NoWriter =>
    /\ mainPc \in {"returned", "exited"} => writer.closed
    /\ ~sinkLog.writeAfterClose
    /\ Cardinality(BundlesEmitted) <= 1
    /\ WriterClose(WriterClose(writer)) = WriterClose(writer)

\* After a read error run() has closed the writer, and the consumer has
\* then offered a record to it.
C20_OfferedAfterClose ==
  /\ srcEnd = "error"
  /\ writer # NoWriter /\ writer.closed
  /\ sinkLog.writeAfterClose
  /\ Cardinality(Written) > 0

\* C21: once a bundle writer is closed, no more than one bundle has been
\* emitted, and the emitted bundle has one entry for every record whose
\* Write returned no error, in the order of the calls, and their number as
\* its total; an ndjson writer has emitted one line for every record whose
\* Write returned no error, in the order of the calls.
C21_EmittedExactlyAccepted ==
  /\ (writer.format = FormatBundle /\ writer.closed) =>
       /\ Len(writer.out) <= 1
       /\ \A i \in DOMAIN writer.out :
            /\ writer.out[i].kind = "bundle"
            /\ writer.out[i].entries = call.accepted
            /\ writer.out[i].total = Len(writer.out[i].entries)
  /\ writer.format = FormatNDJSON =>
       /\ Len(writer.out) = Len(call.accepted)
       /\ \A i \in DOMAIN writer.out :
            /\ writer.out[i].kind = "line"
            /\ writer.out[i].resource = call.accepted[i]

\* A bundle writer has emitted its bundle and has then taken one more
\* record without an error: the record is in no bundle.
C21_AcceptedAfterClose ==
  /\ writer.format = FormatBundle /\ writer.closed
  /\ call.pc = "write" /\ call.err = "" /\ call.before.closed
  /\ Len(writer.out) = 1
  /\ writer.out[1].entries # call.accepted
  /\ writer.resources = call.accepted

(***************************************************************************)
(* Calls of Transform                                                      *)
(***************************************************************************)
p_id == <<"i","d">>
p_Status == <<"S","t","a","t","u","s">>
p_Code_text == <<"C","o","d","e",".","t","e","x","t">>

\* The defaults of the calls: none; placeholders of columns that the row
\* may hold with an empty value, for a text field and for the status; a
\* placeholder of a column no row has; the identifier; two spellings of one
\* location.
TransformDefaults ==
  { <<>>,
    (p_code_text :> t_p),
    (p_status :> t_s),
    (p_code_text :> t_z),
    (p_id :> <<"d">>) @@ (p_code_text :> <<"t">>),
    (p_code_text :> <<"t">>) @@ (p_Code_text :> t_s) }

\* The mappings of the calls: the status; the identifier; two spellings of
\* one location; two locations.
TransformMappings ==
  { (p_status :> t_s),
    (p_id :> t_s) @@ (p_status :> v_final),
    (p_status :> t_s) @@ (p_Status :> v_preliminary),
    (p_subject_reference :> t_patient_p) @@ (p_code_text :> t_s) }

TransformConfigs ==
  { [Resource |-> n_Observation, IDColumn |-> idc, Defaults |-> d, Mappings |-> m] :
      idc \in {<<>>, c_p, c_z}, d \in TransformDefaults, m \in TransformMappings }

\* The rows of the calls: the column s is empty, a status code or another
\* text; the column p is absent, empty or "1".
TransformRows ==
  { (c_s :> s) : s \in {<<>>, v_final, <<"x">>} }
  \cup { (c_s :> s) @@ (c_p :> q) : s \in {<<>>, v_final, <<"x">>},
                                    q \in {<<>>, <<"1">>} }

\* No call has returned a result.
NoTransform == [resource |-> NilV, err |-> NoErr]

InitTransform ==
  /\ \E c \in TransformConfigs, r \in TransformRows, n \in RowNumbers :
       call = [pc |-> "call", cfg |-> c, row |-> r, rowNumber |-> n,
               dOrder |-> <<>>, mOrder |-> <<>>, ret |-> NoTransform]
  /\ build = NoBuild
  /\ writer = NoWriter
  /\ PipelineIdle

\* resource, err := transformer.Transform(row, rowNumber), with the two map
\* iterations in the orders that this call takes.
CallTransform ==
  /\ call.pc = "call"
  /\ \E d \in Orders(DOMAIN call.cfg.Defaults), m \in Orders(DOMAIN call.cfg.Mappings) :
       \E r \in { Transform(call.cfg, call.row, call.rowNumber, d, m) } :
         call' = [call EXCEPT !.pc = "returned", !.dOrder = d, !.mOrder = m,
                              !.ret = r]
  /\ UNCHANGED <<pipeVars, build>>

SpecTransform == InitTransform /\ [][CallTransform]_vars

\* The id column is configured and the row holds a non-empty value for it.
HasID ==
  /\ call.cfg.IDColumn # <<>>
  /\ call.cfg.IDColumn \in DOMAIN call.row
  /\ call.row[call.cfg.IDColumn] # <<>>

\* What the defaults and the mappings of the call produce: the result of
\* the same call without an id column.
WithoutID ==
  Transform([call.cfg EXCEPT !.IDColumn = <<>>], call.row, call.rowNumber,
            call.dOrder, call.mOrder)

\* C22: the built record is the record that the defaults and mappings
\* produce, with its Id replaced by the row's value of the id column when
\* the id column is configured and the row holds a non-empty value for it,
\* and with its Id left as it is otherwise.
C22_IdentifierFromIDColumn ==
  (call.pc = "returned" /\ call.ret.err = NoErr) =>
    /\ WithoutID.err = NoErr
    /\ call.ret.resource =
         IF HasID
         THEN PtrV(StructV([WithoutID.resource.v.v EXCEPT
                              ![n_Id] = PtrV(StrV(call.row[call.cfg.IDColumn]))]))
         ELSE WithoutID.resource

\* A mapping has written "x" to the identifier and the id column has
\* replaced it by "1".
C22_Witness ==
  /\ call.pc = "returned" /\ call.ret.err = NoErr
  /\ HasID
  /\ p_id \in DOMAIN call.cfg.Mappings
  /\ WithoutID.resource.v.v[n_Id] = PtrV(StrV(<<"x">>))
  /\ call.ret.resource.v.v[n_Id] = PtrV(StrV(<<"1">>))

\* The columns that the placeholders of the default at the path name.
DefaultColumns(path) == Range(extractVariables(call.cfg.Defaults[path]))

\* The default at the path, applied alone to a new record, fails.
DefaultAloneFails(path) ==
  applyDefault(createResource(call.cfg).v, createResource(call.cfg).T, path,
               call.cfg.Defaults[path], call.row).err # ""

\* C23: for a default whose template has a placeholder, the build fails
\* with an error that carries the row number when a referenced column is
\* absent from the row, and the default does not make the build fail when
\* every referenced column is in the row with an empty value.
C23_DefaultEmptyTolerated ==
  call.pc = "returned" =>
    \A path \in DOMAIN call.cfg.Defaults :
      DefaultColumns(path) # {} =>
        /\ (\E n \in DefaultColumns(path) : n \notin DOMAIN call.row) =>
             /\ call.ret.err # NoErr
             /\ call.ret.err.row = call.rowNumber
             /\ call.ret.resource = NilV
        /\ (\A n \in DefaultColumns(path) :
              n \in DOMAIN call.row /\ call.row[n] = <<>>) =>
             ~DefaultAloneFails(path)

\* The build has failed on the default status = ${s} of a row whose column
\* s is empty.
C23_EmptyValueFatal ==
  /\ call.pc = "returned"
  /\ call.cfg.Defaults = (p_status :> t_s)
  /\ call.row[c_s] = <<>>
  /\ call.ret.err.msg = "failed to set default"
  /\ call.ret.err.row = call.rowNumber

(***************************************************************************)
(* One call of setFieldValue on a new record, or of setFinalValue on one   *)
(* field                                                                   *)
(***************************************************************************)
p_STATUS == <<"S","T","A","T","U","S">>
p_code_TEXT == <<"c","o","d","e",".","T","E","X","T">>
p_valueinteger == <<"v","a","l","u","e","i","n","t","e","g","e","r">>
p_active == <<"a","c","t","i","v","e">>
p_ACTIVE == <<"A","C","T","I","V","E">>
p_foo == <<"f","o","o">>
p_code == <<"c","o","d","e">>
p_status_0 == <<"s","t","a","t","u","s","[","0","]">>
p_text_0 == <<"c","o","d","e",".","t","e","x","t","[","0","]">>

\* The paths of the calls: spellings of fields in several letter cases, a
\* field that no type has, a struct and an array as the last segment, and
\* an index on a field that is no array.
OncePaths ==
  { p_status, p_Status, p_STATUS, p_code_text, p_Code_text, p_code_TEXT,
    p_valueInteger, p_valueinteger, p_active, p_ACTIVE, p_foo, p_code,
    p_code_coding, p_status_0, p_text_0, p_coding_code, p_subject_reference }

v_true == <<"t","r","u","e">>

\* The literals of the calls.
OnceValues == { <<>>, <<"1">>, <<"1",".","5">>, <<"x">>, v_true, v_final }

\* The types of the fields that setFinalValue is called on, and the values
\* the field holds before the call.
FinalTypes ==
  { T_String, T_Int, T_Float, T_Bool, T_Slice(T_String), T_Struct("Coding"),
    T_Ptr(T_String), T_Ptr(T_Int), T_Ptr(T_Float), T_Ptr(T_Bool) }

FinalBefore(T) ==
  {Zero(T)} \cup
  CASE T.k = "string" -> {StrV(<<"p">>)}
    [] T.k = "int" -> {IntV(7)}
    [] T.k = "float" -> {FloatV(7, 1)}
    [] T.k = "bool" -> {BoolV(TRUE)}
    [] T.k = "ptr" /\ T.elem.k = "int" -> {PtrV(IntV(7))}
    [] T.k = "ptr" /\ T.elem.k = "bool" -> {PtrV(BoolV(TRUE))}
    [] OTHER -> {}

InitOnce ==
  /\ \/ \E res \in {n_Observation, n_Patient}, p \in OncePaths, val \in OnceValues :
          \E c \in { createResource([CfgGood EXCEPT !.Resource = res]) } :
            call = [pc |-> "call", fn |-> "setFieldValue", T |-> c.T, path |-> p,
                    value |-> val, before |-> c.v, after |-> c.v, err |-> ""]
     \/ \E T \in FinalTypes, val \in OnceValues :
          \E b \in FinalBefore(T) :
            call = [pc |-> "call", fn |-> "setFinalValue", T |-> T, path |-> <<>>,
                    value |-> val, before |-> b, after |-> b, err |-> ""]
  /\ build = NoBuild
  /\ writer = NoWriter
  /\ PipelineIdle

\* err := t.setFieldValue(resource, path, value)
CallSetFieldValueOnce ==
  /\ call.pc = "call" /\ call.fn = "setFieldValue"
  /\ \E r \in { setFieldValue(call.before, call.T, call.path, call.value) } :
       call' = [call EXCEPT !.pc = "returned", !.after = r.v, !.err = r.err]
  /\ UNCHANGED <<pipeVars, build>>

\* err := t.setFinalValue(field, value)
CallSetFinalValue ==
  /\ call.pc = "call" /\ call.fn = "setFinalValue"
  /\ \E r \in { setFinalValue(call.before, call.T, call.value) } :
       call' = [call EXCEPT !.pc = "returned", !.after = r.v, !.err = r.err]
  /\ UNCHANGED <<pipeVars, build>>

NextOnce == CallSetFieldValueOnce \/ CallSetFinalValue

SpecOnce == InitOnce /\ [][NextOnce]_vars

\* The path resolves in the type: every segment matches a field of the
\* type it is looked up in, whatever the case of its letters.
RECURSIVE ResolvesNoCase(_, _)
ResolvesNoCase(T, segments) ==
  IF T.k = "ptr" THEN ResolvesNoCase(T.elem, segments)
  ELSE IF segments = <<>> THEN TRUE
  ELSE IF T.k # "struct" THEN FALSE
  ELSE \E f \in DOMAIN StructFields(T.name) :
         /\ ToLower(f) = ToLower(segments[1].Field)
         /\ ResolvesNoCase(IF segments[1].HasIndex /\ StructFields(T.name)[f].k = "slice"
                           THEN StructFields(T.name)[f].elem
                           ELSE StructFields(T.name)[f],
                           Tail(segments))

\* C24: two spellings of a path that differ only in the case of their
\* letters have the same effect on a new record, and a path with a segment
\* that matches no field of the type, in any case, makes the call fail with
\* the field-not-found error.
C24_FieldNamesIgnoreCase ==
  (call.pc = "returned" /\ call.fn = "setFieldValue") =>
    /\ \A q \in OncePaths :
         ToLower(q) = ToLower(call.path) =>
           /\ setFieldValue(call.before, call.T, q, call.value).err = call.err
           /\ setFieldValue(call.before, call.T, q, call.value).v = call.after
    /\ (~ParsePath(call.path).err
        /\ ~ResolvesNoCase(call.T, ParsePath(call.path).segments)
        /\ \A i \in 1..Len(ParsePath(call.path).segments) :
             ~ParsePath(call.path).segments[i].HasIndex) =>
         call.err = "field not found"

\* The call with the path valueinteger has failed where the call with the
\* path valueInteger sets the field.
C24_CaseMatters ==
  /\ call.pc = "returned" /\ call.fn = "setFieldValue"
  /\ call.path = p_valueinteger /\ call.value = <<"1">>
  /\ call.err = "field not found"
  /\ setFieldValue(call.before, call.T, p_valueInteger, call.value).err = ""

\* The segments of the path of the call (none for setFinalValue).
OnceSegments == ParsePath(call.path).segments

\* The type of the field the call ends at, pointers followed.
OnceKind ==
  IF call.fn = "setFinalValue" THEN TerminalType(call.T, <<>>)
  ELSE IF ParsePath(call.path).err THEN [k |-> "none"]
  ELSE TerminalType(call.T, OnceSegments)

\* The field the call ends at, as it was before the call and as it is after.
TermBefore ==
  IF call.fn = "setFinalValue" THEN call.before
  ELSE ValueAt(call.before, OnceSegments)

TermAfter ==
  IF call.fn = "setFinalValue" THEN call.after
  ELSE ValueAt(call.after, OnceSegments)

\* The value that a field of type T holds, an empty optional field taken as
\* the zero value.
RECURSIVE Settled(_, _)
Settled(x, T) ==
  IF x = NilV THEN Zero(T)
  ELSE IF x.t = "ptr" THEN Settled(x.v, T)
  ELSE x

\* The path has an index on a field that is no array.
RECURSIVE IndexOnNonArray(_, _)
IndexOnNonArray(T, segments) ==
  IF T.k = "ptr" THEN IndexOnNonArray(T.elem, segments)
  ELSE IF segments = <<>> \/ T.k # "struct" \/ segments[1].Field = <<>> THEN FALSE
  ELSE IF GoFieldName(segments[1].Field) \notin DOMAIN StructFields(T.name) THEN FALSE
  ELSE LET FT == StructFields(T.name)[GoFieldName(segments[1].Field)]
       IN IF segments[1].HasIndex
          THEN FT.k # "slice" \/ IndexOnNonArray(FT.elem, Tail(segments))
          ELSE IndexOnNonArray(FT, Tail(segments))

\* What the kind's parser makes of the literal of the call.
Parsed(kind) ==
  CASE kind = "int" -> [err |-> ParseInt(call.value).err,
                        v |-> IntV(ParseInt(call.value).val)]
    [] kind = "float" -> [err |-> ParseFloat(call.value).err,
                          v |-> FloatV(ParseFloat(call.value).val[1],
                                       ParseFloat(call.value).val[2])]
    [] kind = "bool" -> [err |-> ParseBool(call.value).err,
                         v |-> BoolV(ParseBool(call.value).val)]

\* The error that names the kind the literal could not be converted to.
ConvertError(kind) ==
  CASE kind = "int" -> "cannot convert to int"
    [] kind = "float" -> "cannot convert to float"
    [] kind = "bool" -> "cannot convert to bool"

\* The parts of C25 that do not concern a literal that cannot be parsed.
CoercesParsable ==
  /\ OnceKind.k = "string" =>
       call.err = "" /\ Settled(TermAfter, OnceKind) = StrV(call.value)
  /\ (OnceKind.k \in {"int", "float", "bool"} /\ ~Parsed(OnceKind.k).err) =>
       call.err = "" /\ Settled(TermAfter, OnceKind) = Parsed(OnceKind.k).v
  /\ (OnceKind.k \in {"int", "float", "bool"} /\ Parsed(OnceKind.k).err) =>
       call.err = ConvertError(OnceKind.k)
  /\ (call.fn = "setFieldValue" /\ ~ParsePath(call.path).err
      /\ IndexOnNonArray(call.T, OnceSegments)) =>
       call.err = "field is not a slice/array" /\ call.after = call.before
  /\ OnceKind.k = "slice" =>
       call.err = "unsupported field type" /\ TermAfter = TermBefore

HandledRows == { r \in RowNumbers : rowLog[r].handled > 0 }

\* C26: with validation enabled, a built record that the consumer has
\* handled was offered to the writer exactly when it has no validation
\* issue or the level is not "error"; under the level "error" a record with
\* an issue is counted as failed and is not offered; a record with an issue
\* is counted as flagged under either level; a row whose build failed has
\* no issues and is not offered.
C26_ValidationLevelPolicy ==
  enableValidation =>
    /\ \A r \in HandledRows :
         /\ rowLog[r].built = "ok" =>
              /\ rowLog[r].offered = 1
                   <=> (rowLog[r].issues = 0 \/ validationLevel # "error")
              /\ (rowLog[r].issues > 0 /\ validationLevel = "error") =>
                   /\ rowLog[r].outcome = "rejected"
                   /\ rowLog[r].offered = 0 /\ rowLog[r].written = 0
         /\ rowLog[r].built = "failed" =>
              /\ rowLog[r].issues = 0
              /\ rowLog[r].offered = 0
              /\ rowLog[r].outcome = "rejected"
    /\ \A r \in RowNumbers : rowLog[r].built = "failed" => rowLog[r].issues = 0
    /\ validationErrorCount = Cardinality({ r \in HandledRows : rowLog[r].issues > 0 })

\* Under the warn level a record with an issue has been flagged and
\* written, and a row whose build failed has been rejected.
C26_Witness ==
  /\ enableValidation /\ validationLevel = "warn"
  /\ \E r1, r2 \in HandledRows :
       /\ rowLog[r1].built = "ok" /\ rowLog[r1].issues > 0
       /\ rowLog[r1].offered = 1 /\ rowLog[r1].written = 1
       /\ rowLog[r2].built = "failed" /\ rowLog[r2].offered = 0
  /\ validationErrorCount >= 1

\* The rows read from the source whose result the consumer has not taken.
InFlight == { r \in ReadRows : rowLog[r].handled = 0 }

\* The rows a worker has received and whose result it has not yet sent.
InWorkers == { w \in Workers : wPc[w] = "send" }

SummaryReached == srcEnd = "eof" /\ cPc = "exit"

\* C28: when run() prints its summary, rowCount + errorCount is the
\* number of rows read, every row read was counted by the consumer once, as
\* processed or as failed, and rowCount is the number of records whose
\* Write returned no error.
C28_CountersPartitionRows ==
  SummaryReached =>
    /\ rowCount + errorCount = Cardinality(ReadRows)
    /\ \A r \in ReadRows : rowLog[r].handled = 1
    /\ rowCount = Cardinality(ReadRows \ Rejected)
    /\ errorCount = Cardinality(Rejected)
    /\ rowCount = Cardinality(Written)

\* The summary is printed after the writer refused a record: the record is
\* in rowCount and in errorCount, and the two counts add up to more than the
\* rows read.
C28_RefusedCountedTwice ==
  /\ SummaryReached
  /\ sinkLog.failed
  /\ rowCount + errorCount > Cardinality(ReadRows)
  /\ rowCount > Cardinality(Written)

\* The rows whose result is in the result queue.
QueuedResults == { results[i].rowNumber : i \in DOMAIN results }

\* The consumer's range loop has ended: it has seen results closed.
ConsumerSawClose == cPc \in {"signal", "exit"}

\* C29: results is closed only once every worker has exited; a worker has
\* exited only once jobs is closed and empty and the worker holds no unsent
\* result; no worker is about to send or sends on the closed results; and
\* the consumer's loop has ended only once results is closed and empty and
\* every row a worker took has been handled.
C29_CloseAfterWorkersDrainBeforeEnd ==
  /\ resultsClosed => \A w \in Workers : wPc[w] = "exit"
  /\ \A w \in Workers :
       wPc[w] = "exit" => jobsClosed /\ jobs = <<>> /\ wRes[w] = NoResult
  /\ (\A w \in Workers : wPc[w] = "exit") =>
       \A r \in ReadRows :
         rowLog[r].taken = 1 /\ (rowLog[r].handled = 1 \/ r \in QueuedResults)
  /\ resultsClosed => \A w \in Workers : wPc[w] # "send"
  /\ ConsumerSawClose =>
       /\ resultsClosed /\ results = <<>>
       /\ \A w \in Workers : wRes[w] = NoResult
       /\ \A r \in ReadRows : rowLog[r].taken = 1 /\ rowLog[r].handled = 1

\* results is closed while two results wait in it, and the consumer is
\* still in its loop.
C29_Witness ==
  /\ resultsClosed /\ cPc = "recv"
  /\ Len(results) = 2
  /\ \A w \in Workers : wPc[w] = "exit"

\* The results of the call for every order of the two map iterations.
ResultsOverOrders ==
  { Transform(call.cfg, call.row, call.rowNumber, d, m) :
      d \in Orders(DOMAIN call.cfg.Defaults), m \in Orders(DOMAIN call.cfg.Mappings) }

\* C30: for a configuration and a row, Transform returns the same record,
\* or fails, whatever the order in which the range loops take the entries of
\* Defaults and the entries of Mappings.
C30_OrderIndependent ==
  call.pc = "returned" =>
    \A t \in ResultsOverOrders :
      /\ t.resource = call.ret.resource
      /\ (t.err = NoErr) = (call.ret.err = NoErr)

\* The mappings "status" and "Status" write the same field: the call has
\* returned a record, and with the other order of the two entries it returns
\* a record with another status.
C30_LastSpellingWins ==
  /\ call.pc = "returned" /\ call.ret.err = NoErr
  /\ DOMAIN call.cfg.Mappings = {p_status, p_Status}
  /\ DOMAIN call.cfg.Defaults = {}
  /\ call.row[c_s] = v_final
  /\ \E t \in ResultsOverOrders :
       /\ t.err = NoErr
       /\ t.resource # call.ret.resource

====
